---- MODULE Spec2Model ----
(***************************************************************************)
(* Model of the DMP evaluation tool: the result normalizer and the         *)
(* evaluation pipeline (js/evaluator.js), the criteria extractor           *)
(* (js/criteria-extractor.js), the model client (js/api-config.js: retry   *)
(* loop, JSON repair, stream reader, profile store), the file parser, and  *)
(* the click handler, settings and Evaluate button of the page.  Each      *)
(* part has its own specification;                                         *)
(* the variables of the other parts stay at their idle values.             *)
(*                                                                         *)
(* Strings that the code takes apart (category ids) are sequences of       *)
(* one-character strings; an optional field of a JavaScript object is a    *)
(* sequence of length 0 (absent) or 1 (present).                           *)
(***************************************************************************)
EXTENDS Integers, Sequences, FiniteSets, TLC

VARIABLES
  criteria,     \* processResults: the rubric argument
  rawResults,   \* processResults: the raw model output argument
  processed,    \* processResults: the returned object
  prPc,         \* processResults: "idle" | "returned"
  text,         \* extractCriteria: the document, a sequence of lines
  phase,        \* extractCriteria: the phase argument
  rubric,       \* extractCriteria: the returned rubric
  ecPc,         \* extractCriteria: "idle" | "returned"
  attempt,      \* retryWithBackoff: the loop counter
  outcomes,     \* retryWithBackoff: what fetchFn did at each call so far
  delays,       \* retryWithBackoff: the delays waited so far, in ms
  response,     \* retryWithBackoff: the returned response (optional)
  lastError,    \* retryWithBackoff: the last network error caught (optional)
  thrown,       \* retryWithBackoff: the thrown error's message (optional)
  rwbPc,        \* retryWithBackoff: "loop" | "returned" | "threw"
  rjText,       \* repairJSON: the argument, a sequence of characters
  rjResult,     \* repairJSON: the returned value (optional: null is absent)
  rjError,      \* evaluateDMP: the error thrown after repairJSON (optional)
  rjPc,         \* repairJSON: "idle" | "done"
  sseStream,    \* parseSSEStream: the whole byte stream, a sequence of symbols
  ssePos,       \* parseSSEStream: how many symbols the reads have delivered
  sseBuffer,    \* parseSSEStream: buffer, the incomplete last line
  sseContent,   \* parseSSEStream: accumulatedContent, the chunks in order
  sseReasoning, \* parseSSEStream: accumulatedReasoning, the chunks in order
  sseCalls,     \* parseSSEStream: the onChunk calls made, <<chunk, isReasoning>>
  sseResult,    \* parseSSEStream: the returned string (optional)
  ssePc,        \* parseSSEStream: "reading" | "returned" | "threw"
  evTestMode,   \* evaluate: the test-mode flag of the settings
  evApiKey,     \* evaluate: whether an API key is stored
  evCriteriaFile,\* evaluate: the criteria file argument
  evDmpFile,    \* evaluate: the DMP file argument
  evPhase,      \* evaluate: the phase argument
  evThrowAt,    \* evaluate: the call of onProgress that throws (0: none does)
  evRubric,     \* evaluate: criteria, the extracted rubric (optional)
  evDmpLen,     \* evaluate: dmpData.text.length (optional)
  evProgress,   \* evaluate: the messages handed to onProgress so far
  evModelEvents,\* evaluateDMP: the types of the events it emitted so far
  evRequests,   \* evaluate: the number of fetch calls made so far
  evRaw,        \* evaluateDMP: the returned result (optional)
  evRaised,     \* evaluate: the messages of the exceptions thrown so far
  evOutcome,    \* evaluate: what the returned promise resolved to (optional)
  evPc,         \* evaluate: the await it is at, or "resolved"
  vfFile,       \* validateFile: the file argument, its name and size
  vfResult,     \* validateFile: the returned object (optional)
  vfPc,         \* validateFile: "idle" | "returned"
  lsActiveProfile,\* localStorage item apiActiveProfile (optional)
  lsCustomProfiles,\* localStorage item apiCustomProfiles (optional): id -> config
  psCall,       \* profile store: the call made last, with its return value
  isEvaluating, \* state.isEvaluating
  evaluationResults,\* state.evaluationResults is set
  seRuns,       \* Evaluator.evaluate calls in flight: the progress of each
  seStatus,     \* showStatus: the status shown
  seClicks,     \* clicks on Start Evaluation so far
  seStarted,    \* Evaluator.evaluate calls made so far
  seSettled,    \* how the evaluation settled last
  criteriaFile, \* state.criteriaFile is set
  dmpFile,      \* state.dmpFile is set
  togetherAPIKey,\* localStorage item togetherAPIKey (optional)
  llmTestMode,  \* localStorage item llmTestMode (optional)
  togetherAIModel,\* localStorage item togetherAIModel (optional)
  evaluateBtnDisabled,\* evaluateBtn.disabled
  uiRun,        \* the run of evaluate: "idle" | "decoding" | "calling" | "settled"
  uiAtStart,    \* the settings when the run started (optional)
  uiRead,       \* the settings evaluateDMP read (optional)
  uiSent,       \* the model the request was sent with (optional)
  uiMeta        \* metadata.model of the successful result (optional)

prVars == <<criteria, rawResults, processed, prPc>>
ecVars == <<text, phase, rubric, ecPc>>
rwbVars == <<attempt, outcomes, delays, response, lastError, thrown, rwbPc>>
rjVars ==
  <<rjText, rjResult, rjError, rjPc>>
sseVars ==
  <<sseStream, ssePos, sseBuffer, sseContent, sseReasoning,
    sseCalls, sseResult, ssePc>>
evVars ==
  <<evTestMode, evApiKey, evCriteriaFile, evDmpFile, evPhase,
    evThrowAt, evRubric, evDmpLen, evProgress, evModelEvents,
    evRequests, evRaw, evRaised, evOutcome, evPc>>
vfVars ==
  <<vfFile, vfResult, vfPc>>
psVars ==
  <<lsActiveProfile, lsCustomProfiles, psCall>>
seVars ==
  <<isEvaluating, evaluationResults, seRuns, seStatus,
    seClicks, seStarted, seSettled>>
uiVars ==
  <<criteriaFile, dmpFile, togetherAPIKey, llmTestMode,
    togetherAIModel, evaluateBtnDisabled, uiRun, uiAtStart,
    uiRead, uiSent, uiMeta>>
\* the parts of the state that the normalizer, the extractor and the retry
\* loop never touch
laterVars ==
  <<rjVars, sseVars, evVars, vfVars, psVars, seVars, uiVars>>
vars == <<prVars, ecVars, rwbVars, laterVars>>
\* what each of the later operations leaves alone
exceptRj ==
  <<prVars, ecVars, rwbVars, sseVars, evVars, vfVars, psVars,
    seVars, uiVars>>
exceptSse ==
  <<prVars, ecVars, rwbVars, rjVars, evVars, vfVars, psVars,
    seVars, uiVars>>
exceptEv ==
  <<prVars, ecVars, rwbVars, rjVars, sseVars, vfVars, psVars,
    seVars, uiVars>>
exceptVf ==
  <<prVars, ecVars, rwbVars, rjVars, sseVars, evVars, psVars,
    seVars, uiVars>>
exceptPs ==
  <<prVars, ecVars, rwbVars, rjVars, sseVars, evVars, vfVars,
    seVars, uiVars>>
exceptSe ==
  <<prVars, ecVars, rwbVars, rjVars, sseVars, evVars, vfVars,
    psVars, uiVars>>
exceptUi ==
  <<prVars, ecVars, rwbVars, rjVars, sseVars, evVars, vfVars,
    psVars, seVars>>

---------------------------------------------------------------------------
(* Bounds of the model *)

\* longest categories array of a model output
MaxCats == 2
\* longest rubric handed to processResults
MaxRubric == 2
\* single-category inputs take every integer score from -ScoreSlack to 100 + ScoreSlack
ScoreSlack == 6
\* longest document handed to extractCriteria, in lines
MaxLines == 3

---------------------------------------------------------------------------
(* JavaScript values *)

None == <<>>
Some(v) == <<v>>

\* a || d for an optional number: absent and 0 are falsy
OrNum(opt, d) == IF opt = None \/ opt[1] = 0 THEN d ELSE opt[1]

\* a || d for an optional string: absent and "" are falsy
OrStr(opt, d) == IF opt = None \/ opt[1] = "" THEN d ELSE opt[1]

\* a || d for an optional id (a character sequence): absent and '' are falsy
OrId(opt, d) == IF opt = None \/ opt[1] = <<>> THEN d ELSE opt[1]

Min(a, b) == IF a <= b THEN a ELSE b
Max(a, b) == IF a >= b THEN a ELSE b

\* Math.round(num / den) for num >= 0, den > 0: halves round up
RoundDiv(num, den) == (2 * num + den) \div (2 * den)

Digits == <<"0", "1", "2", "3", "4", "5", "6", "7", "8", "9">>
Letters == <<"a", "b", "c", "d", "e", "f", "g", "h", "i", "j", "k", "l", "m",
             "n", "o", "p", "q", "r", "s", "t", "u", "v", "w", "x", "y", "z">>
Alphabet == Digits \o Letters

DigitSet == {Digits[i] : i \in 1..Len(Digits)}
LetterSet == {Letters[i] : i \in 1..Len(Letters)}
DigitVals == [c \in DigitSet |-> (CHOOSE i \in 1..Len(Digits) : Digits[i] = c) - 1]
\* position of a character in the collation order (digits, then lower-case letters)
CharRanks == [c \in DigitSet \cup LetterSet |-> CHOOSE i \in 1..Len(Alphabet) : Alphabet[i] = c]

IsDigit(c) == c \in DigitSet
DigitVal(c) == DigitVals[c]
CharRank(c) == CharRanks[c]

\* the value NaN; the ids of the model carry no sign, so parseInt is otherwise >= 0
NaN == 0 - 1

RECURSIVE ParseDigits(_, _, _)
ParseDigits(s, i, acc) ==
  IF i > Len(s) \/ ~IsDigit(s[i]) THEN acc
  ELSE ParseDigits(s, i + 1, 10 * acc + DigitVal(s[i]))

\* parseInt(s): the number its leading digits spell, NaN when it starts with none
parseInt(s) ==
  IF Len(s) = 0 \/ ~IsDigit(s[1]) THEN NaN ELSE ParseDigits(s, 1, 0)

RECURSIVE LocaleCompareFrom(_, _, _)
LocaleCompareFrom(a, b, i) ==
  IF i > Len(a) /\ i > Len(b) THEN 0
  ELSE IF i > Len(a) THEN 0 - 1
  ELSE IF i > Len(b) THEN 1
  ELSE IF CharRank(a[i]) < CharRank(b[i]) THEN 0 - 1
  ELSE IF CharRank(a[i]) > CharRank(b[i]) THEN 1
  ELSE LocaleCompareFrom(a, b, i + 1)

\* a.localeCompare(b) on strings of digits and lower-case letters: -1, 0 or 1
localeCompare(a, b) == LocaleCompareFrom(a, b, 1)

Sign(n) == IF n < 0 THEN 0 - 1 ELSE IF n > 0 THEN 1 ELSE 0

---------------------------------------------------------------------------
(* processResults (js/evaluator.js) *)

Id1a == <<"1", "a">>
Id2a == <<"2", "a">>
Id2b == <<"2", "b">>
Id10a == <<"1", "0", "a">>
IdUnknown == <<"u", "n", "k", "n", "o", "w", "n">>

PlaceholderFeedback ==
  "This criterion was not evaluated. Please review the DMP for this section."

\* determineStatus with > in place of >=
determineStatusStrict(score) ==
  IF score > 90 THEN "excellent"
  ELSE IF score > 75 THEN "good"
  ELSE IF score > 60 THEN "fair"
  ELSE "poor"

determineStatus(score) ==
  IF score >= 90 THEN "excellent"
  ELSE IF score >= 75 THEN "good"
  ELSE IF score >= 60 THEN "fair"
  ELSE "poor"

\* the clamp without its Math.max(0, ...)
clampScoreNoFloor(score) == Min(100, score)

\* Math.min(100, Math.max(0, score))
clampScore(score) == Min(100, Max(0, score))

\* cat.status, the first property read of the map callback, raises a
\* TypeError when cat is null
mapThrows(raw) ==
  /\ raw.categories # None
  /\ \E i \in 1..Len(raw.categories[1]) : raw.categories[1][i] = [null |-> TRUE]

\* the callback of rawResults.categories.map
mapCategory(cat) ==
  [ id |-> OrId(cat.id, IdUnknown),
    name |-> OrStr(cat.name, "Unknown Category"),
    score |-> clampScore(OrNum(cat.score, 0)),
    status |-> OrStr(cat.status, determineStatus(OrNum(cat.score, 0))),
    feedback |-> OrStr(cat.feedback, "No feedback provided") ]

\* rawResults.categories && Array.isArray(rawResults.categories) ? map : []
mappedCategories(raw) ==
  IF raw.categories = None THEN <<>>
  ELSE [i \in 1..Len(raw.categories[1]) |-> mapCategory(raw.categories[1][i])]

RECURSIVE SumScores(_, _)
SumScores(cats, i) ==
  IF i > Len(cats) THEN 0 ELSE cats[i].score + SumScores(cats, i + 1)

\* the overall score after the "recalculate if missing or invalid" block
overallScoreOf(raw, cats) ==
  LET reported == OrNum(raw.overallScore, 0)
  IN  IF reported = 0 /\ Len(cats) > 0
      THEN RoundDiv(SumScores(cats, 1), Len(cats))
      ELSE reported

placeholder(critCat) ==
  [ id |-> critCat.id,
    name |-> critCat.name,
    score |-> 0,
    status |-> "poor",
    feedback |-> PlaceholderFeedback ]

\* criteria.categories.forEach: a placeholder for each rubric id that is not
\* among existingIds, the ids of the mapped categories
RECURSIVE fillMissingFrom(_, _, _, _)
fillMissingFrom(cats, existingIds, crit, i) ==
  IF i > Len(crit) THEN cats
  ELSE fillMissingFrom(
         IF crit[i].id \in existingIds THEN cats
         ELSE Append(cats, placeholder(crit[i])),
         existingIds, crit, i + 1)

\* the same loop started at the second rubric entry
fillMissingSkipFirst(cats, crit) ==
  fillMissingFrom(cats, {cats[i].id : i \in 1..Len(cats)}, crit, 2)

fillMissing(cats, crit) ==
  fillMissingFrom(cats, {cats[i].id : i \in 1..Len(cats)}, crit, 1)

\* a comparator that compares the whole ids as strings only
compareIdsLexical(a, b) == localeCompare(a.id, b.id)

\* the comparator handed to sort; a NaN result counts as +0
compareIds(a, b) ==
  LET aNum == parseInt(a.id)
      bNum == parseInt(b.id)
  IN  IF aNum = NaN \/ bNum = NaN THEN 0
      ELSE IF aNum # bNum THEN Sign(aNum - bNum)
      ELSE localeCompare(a.id, b.id)

\* whether compareIds is a consistent comparator for the elements of cats
consistentComparator(cats) ==
  LET S == {cats[i] : i \in 1..Len(cats)}
  IN  /\ \A a, b \in S : compareIds(a, b) = 0 - compareIds(b, a)
      /\ \A a, b, c \in S :
           /\ (compareIds(a, b) = 0 /\ compareIds(b, c) = 0) => compareIds(a, c) = 0
           /\ (compareIds(a, b) < 0 /\ compareIds(b, c) < 0) => compareIds(a, c) < 0
           /\ (compareIds(a, b) > 0 /\ compareIds(b, c) > 0) => compareIds(a, c) > 0

\* insert x after the last element that does not compare greater than it
RECURSIVE insertSorted(_, _, _)
insertSorted(sorted, x, i) ==
  IF i = 0 \/ compareIds(sorted[i], x) <= 0
  THEN SubSeq(sorted, 1, i) \o <<x>> \o SubSeq(sorted, i + 1, Len(sorted))
  ELSE insertSorted(sorted, x, i - 1)

RECURSIVE stableSortFrom(_, _, _)
stableSortFrom(sorted, cats, i) ==
  IF i > Len(cats) THEN sorted
  ELSE stableSortFrom(insertSorted(sorted, cats[i], Len(sorted)), cats, i + 1)

Rearrangements(cats) ==
  LET n == Len(cats)
  IN  {[i \in 1..n |-> cats[p[i]]] : p \in {q \in [1..n -> 1..n] : \A i, j \in 1..n : q[i] = q[j] => i = j}}

\* Array.prototype.sort: the stable sorted order under a consistent comparator,
\* an implementation-defined rearrangement under an inconsistent one
sortOutcomes(cats) ==
  IF consistentComparator(cats) THEN {stableSortFrom(<<>>, cats, 1)}
  ELSE Rearrangements(cats)

\* the objects processResults can return
processResultsOutcomes(raw, crit) ==
  LET cats == mappedCategories(raw)
      overall == overallScoreOf(raw, cats)
      filled == fillMissing(cats, crit)
  IN  {[overallScore |-> overall, categories |-> s] : s \in sortOutcomes(filled)}

---------------------------------------------------------------------------
(* Inputs of processResults *)

IdUniverse == {Id1a, Id2a, Id2b, Id10a}

\* the rubric names: CATEGORY_DEFINITIONS for its ids, the cell's text otherwise
rubricName(id) ==
  IF id = Id1a THEN "Data Description and Collection or Re-use"
  ELSE IF id = Id2a THEN "Metadata and Documentation Standards"
  ELSE IF id = Id2b THEN "Data Quality Control Measures"
  ELSE "Criterion named by its table cell"

\* a rubric entry; its description is modelled by its length, which the
\* extractor keeps above 10
rubricEntry(id) == [id |-> id, name |-> rubricName(id), description |-> 11]

SeqsUpTo(S, lo, hi) == UNION {[1..n -> S] : n \in lo..hi}

\* rubrics that pass validateCriteria: non-empty, every field present
Rubrics(hi) == {[i \in 1..Len(ids) |-> rubricEntry(ids[i])] : ids \in SeqsUpTo(IdUniverse, 1, hi)}

ModelName == "Name given by the model"
ModelFeedback == "Feedback given by the model"

\* complete categories without a status, as the members of longer outputs
StructCats ==
  [ id : {Some(i) : i \in IdUniverse}, name : {Some(ModelName)},
    score : {Some(75), Some(100)}, status : {None}, feedback : {Some(ModelFeedback)} ]

\* outputs of up to MaxCats categories, with no overall score
StructureInputs ==
  [ overallScore : {None},
    categories : {Some(s) : s \in SeqsUpTo(StructCats, 0, MaxCats)} ]

\* categories with any of their fields absent, and with a status that is
\* none of the four labels
FieldCats ==
  [ id : {None, Some(Id1a)}, name : {None, Some(ModelName)},
    score : {None, Some(0 - 5), Some(150)},
    status : {None, Some("good"), Some("Very good")},
    feedback : {None, Some(ModelFeedback)} ]

\* outputs of one category, or with no categories array, and any overall score
FieldInputs ==
  [ overallScore : {None, Some(0 - 5), Some(0), Some(85), Some(150)},
    categories : {None} \cup {Some(<<c>>) : c \in FieldCats} ]

ScoreCats ==
  [ id : {Some(Id1a)}, name : {Some(ModelName)},
    score : {Some(n) : n \in (0 - ScoreSlack)..(100 + ScoreSlack)},
    status : {None, Some("good")}, feedback : {Some(ModelFeedback)} ]

\* outputs of one category with every integer score of the range
ScoreInputs ==
  [ overallScore : {None}, categories : {Some(<<c>>) : c \in ScoreCats} ]

\* the JSON value null as an element of the categories array
NullCat == [null |-> TRUE]

\* outputs whose categories array holds a null, alone or after a category
NullInputs ==
  [ overallScore : {None, Some(85)},
    categories : {Some(<<NullCat>>)} \cup {Some(<<c, NullCat>>) : c \in StructCats} ]

---------------------------------------------------------------------------
(* Specification of processResults *)

RjIdle ==
  /\ rjText = <<>>
  /\ rjResult = <<>>
  /\ rjError = <<>>
  /\ rjPc = "off"

SseIdle ==
  /\ sseStream = <<>>
  /\ ssePos = 0
  /\ sseBuffer = <<>>
  /\ sseContent = <<>>
  /\ sseReasoning = <<>>
  /\ sseCalls = <<>>
  /\ sseResult = <<>>
  /\ ssePc = "off"

EvIdle ==
  /\ evTestMode = FALSE
  /\ evApiKey = FALSE
  /\ evCriteriaFile = <<>>
  /\ evDmpFile = <<>>
  /\ evPhase = "proposal"
  /\ evThrowAt = 0
  /\ evRubric = <<>>
  /\ evDmpLen = <<>>
  /\ evProgress = <<>>
  /\ evModelEvents = <<>>
  /\ evRequests = 0
  /\ evRaw = <<>>
  /\ evRaised = <<>>
  /\ evOutcome = <<>>
  /\ evPc = "off"

VfIdle ==
  /\ vfFile = <<>>
  /\ vfResult = <<>>
  /\ vfPc = "off"

PsIdle ==
  /\ lsActiveProfile = <<>>
  /\ lsCustomProfiles = <<>>
  /\ psCall = [op |-> "off", id |-> "", ret |-> <<>>]

SeIdle ==
  /\ isEvaluating = FALSE
  /\ evaluationResults = FALSE
  /\ seRuns = <<>>
  /\ seStatus = "idle"
  /\ seClicks = 0
  /\ seStarted = 0
  /\ seSettled = "none"

UiIdle ==
  /\ criteriaFile = FALSE
  /\ dmpFile = FALSE
  /\ togetherAPIKey = <<>>
  /\ llmTestMode = <<>>
  /\ togetherAIModel = <<>>
  /\ evaluateBtnDisabled = TRUE
  /\ uiRun = "off"
  /\ uiAtStart = <<>>
  /\ uiRead = <<>>
  /\ uiSent = <<>>
  /\ uiMeta = <<>>

LaterIdle ==
  /\ RjIdle
  /\ SseIdle
  /\ EvIdle
  /\ VfIdle
  /\ PsIdle
  /\ SeIdle
  /\ UiIdle

EcIdle ==
  /\ text = <<>> /\ phase = "proposal" /\ rubric = None /\ ecPc = "off"

RwbIdle ==
  /\ attempt = 0 /\ outcomes = <<>> /\ delays = <<>>
  /\ response = None /\ lastError = None /\ thrown = None /\ rwbPc = "off"

PrIdle ==
  /\ criteria = <<>> /\ rawResults = None /\ processed = None /\ prPc = "off"

IdleButRj ==
  /\ PrIdle /\ EcIdle /\ RwbIdle
  /\ SseIdle
  /\ EvIdle
  /\ VfIdle
  /\ PsIdle
  /\ SeIdle
  /\ UiIdle

IdleButSse ==
  /\ PrIdle /\ EcIdle /\ RwbIdle
  /\ RjIdle
  /\ EvIdle
  /\ VfIdle
  /\ PsIdle
  /\ SeIdle
  /\ UiIdle

IdleButEv ==
  /\ PrIdle /\ EcIdle /\ RwbIdle
  /\ RjIdle
  /\ SseIdle
  /\ VfIdle
  /\ PsIdle
  /\ SeIdle
  /\ UiIdle

IdleButVf ==
  /\ PrIdle /\ EcIdle /\ RwbIdle
  /\ RjIdle
  /\ SseIdle
  /\ EvIdle
  /\ PsIdle
  /\ SeIdle
  /\ UiIdle

IdleButPs ==
  /\ PrIdle /\ EcIdle /\ RwbIdle
  /\ RjIdle
  /\ SseIdle
  /\ EvIdle
  /\ VfIdle
  /\ SeIdle
  /\ UiIdle

IdleButSe ==
  /\ PrIdle /\ EcIdle /\ RwbIdle
  /\ RjIdle
  /\ SseIdle
  /\ EvIdle
  /\ VfIdle
  /\ PsIdle
  /\ UiIdle

IdleButUi ==
  /\ PrIdle /\ EcIdle /\ RwbIdle
  /\ RjIdle
  /\ SseIdle
  /\ EvIdle
  /\ VfIdle
  /\ PsIdle
  /\ SeIdle

InitPR ==
  /\ \/ criteria \in Rubrics(MaxRubric) /\ rawResults \in StructureInputs
     \/ criteria \in Rubrics(MaxRubric) /\ rawResults \in FieldInputs
     \/ criteria \in Rubrics(1) /\ rawResults \in ScoreInputs
     \/ criteria \in Rubrics(1) /\ rawResults \in NullInputs
  /\ processed = None
  /\ prPc = "idle"
  /\ EcIdle
  /\ RwbIdle
  /\ LaterIdle

\* const processedResults = processResults(results, criteria)
ProcessResults ==
  /\ prPc = "idle"
  /\ IF mapThrows(rawResults)
     THEN processed' = None /\ prPc' = "threw"
     ELSE /\ \E out \in processResultsOutcomes(rawResults, criteria) :
               processed' = Some(out)
          /\ prPc' = "returned"
  /\ UNCHANGED <<criteria, rawResults, ecVars, rwbVars, laterVars>>

NextPR == ProcessResults

SpecPR == InitPR /\ [][NextPR]_vars

---------------------------------------------------------------------------
(* Properties of processResults *)

Returned == prPc = "returned"
Result == processed[1]
ResultCats == Result.categories
RawCats == IF rawResults.categories = None THEN <<>> ELSE rawResults.categories[1]
\* the id under which the model's k-th category is returned
EffectiveId(k) == IF RawCats[k].id = None THEN IdUnknown ELSE RawCats[k].id[1]
\* the score the model reported for its k-th category, 0 when it reported none
ReportedScore(k) == IF RawCats[k].score = None THEN 0 ELSE RawCats[k].score[1]
\* the rubric id is the id of none of the model's categories
Omitted(id) == \A k \in 1..Len(RawCats) : RawCats[k].id # Some(id)
DistinctRubricIds ==
  \A i, j \in 1..Len(criteria) : criteria[i].id = criteria[j].id => i = j
TimesReturned(id) == Cardinality({j \in 1..Len(ResultCats) : ResultCats[j].id = id})

\* C1: for a rubric of N categories with distinct ids and any model output, the
\* returned categories number exactly N and hold each rubric id exactly once.
C1_ExactlyRubricIds ==
  (Returned /\ DistinctRubricIds) =>
    /\ Len(ResultCats) = Len(criteria)
    /\ \A i \in 1..Len(criteria) : TimesReturned(criteria[i].id) = 1

\* C2: every rubric id is among the returned categories, and an id the model
\* omitted is returned as the placeholder: score 0, status poor, the fixed
\* feedback, the rubric entry's name.
C2_RubricCovered ==
  Returned =>
    \A i \in 1..Len(criteria) :
      /\ TimesReturned(criteria[i].id) >= 1
      /\ Omitted(criteria[i].id) =>
           \E j \in 1..Len(ResultCats) :
             ResultCats[j] =
               [ id |-> criteria[i].id, name |-> criteria[i].name, score |-> 0,
                 status |-> "poor",
                 feedback |-> "This criterion was not evaluated. Please review the DMP for this section." ]

C2_Witness ==
  /\ Returned
  /\ Len(RawCats) = 2
  /\ Len(criteria) = 2
  /\ Omitted(criteria[2].id)
  /\ ~Omitted(criteria[1].id)
  /\ Len(ResultCats) = 3

\* the score the spec requires for a reported integer score
ClampedTo0_100(n) == IF n < 0 THEN 0 ELSE IF n > 100 THEN 100 ELSE n

\* C3: every returned score is in 0..100, and each category of the model is
\* returned with its reported score clamped: -5 as 0, 150 as 100, none as 0.
C3_ScoresClamped ==
  Returned =>
    /\ \A j \in 1..Len(ResultCats) : ResultCats[j].score \in 0..100
    /\ \A k \in 1..Len(RawCats) :
         \E j \in 1..Len(ResultCats) :
           /\ ResultCats[j].id = EffectiveId(k)
           /\ ResultCats[j].score = ClampedTo0_100(ReportedScore(k))

C3_Witness ==
  /\ Returned
  /\ Len(RawCats) = 1
  /\ RawCats[1].score = Some(0 - 5)
  /\ \E j \in 1..Len(ResultCats) :
       ResultCats[j].id = EffectiveId(1) /\ ResultCats[j].score = 0

\* the canonical mapping of the data model
CanonicalStatus(score) ==
  CASE score \in 90..100 -> "excellent"
    [] score \in 75..89 -> "good"
    [] score \in 60..74 -> "fair"
    [] score \in 0..59 -> "poor"

\* C4: a category the model gave no status is returned with the canonical
\* status of its clamped score, for every integer score reported.
C4_StatusOfClampedScore ==
  Returned =>
    \A k \in 1..Len(RawCats) :
      RawCats[k].status = None =>
        \E j \in 1..Len(ResultCats) :
          /\ ResultCats[j].id = EffectiveId(k)
          /\ ResultCats[j].score = ClampedTo0_100(ReportedScore(k))
          /\ ResultCats[j].status = CanonicalStatus(ClampedTo0_100(ReportedScore(k)))

C4_Witness ==
  /\ Returned
  /\ Len(RawCats) = 1
  /\ RawCats[1].status = None
  /\ RawCats[1].score = Some(101)
  /\ \E j \in 1..Len(ResultCats) :
       /\ ResultCats[j].id = EffectiveId(1)
       /\ ResultCats[j].score = 100
       /\ ResultCats[j].status = "excellent"

\* an id of the form <digits><letter>
DigitsThenLetter(id) ==
  /\ Len(id) >= 2
  /\ \A i \in 1..(Len(id) - 1) : IsDigit(id[i])
  /\ id[Len(id)] \in LetterSet

ResultIds == [j \in 1..Len(ResultCats) |-> ResultCats[j].id]

\* C5: returned categories whose ids are all <digits><letter> are in ascending
\* order of the leading integer, ties in lexical order of the whole id; the
\* ids 10a, 2b, 1a, 2a come out as 1a, 2a, 2b, 10a.
C5_SortedNumericThenLexical ==
  (Returned /\ \A j \in 1..Len(ResultCats) : DigitsThenLetter(ResultCats[j].id)) =>
    /\ \A i, j \in 1..Len(ResultCats) :
         i < j =>
           \/ parseInt(ResultIds[i]) < parseInt(ResultIds[j])
           \/ /\ parseInt(ResultIds[i]) = parseInt(ResultIds[j])
              /\ localeCompare(ResultIds[i], ResultIds[j]) <= 0
    /\ ( /\ Len(RawCats) = 2 /\ Len(criteria) = 2
         /\ RawCats[1].id = Some(Id10a) /\ RawCats[2].id = Some(Id2b)
         /\ criteria[1].id = Id1a /\ criteria[2].id = Id2a )
       => ResultIds = <<Id1a, Id2a, Id2b, Id10a>>

C5_Witness ==
  /\ Returned
  /\ Len(RawCats) = 2 /\ Len(criteria) = 2
  /\ RawCats[1].id = Some(Id10a) /\ RawCats[2].id = Some(Id2b)
  /\ criteria[1].id = Id1a /\ criteria[2].id = Id2a
  /\ ResultIds = <<Id1a, Id2a, Id2b, Id10a>>

\* C6: the returned overallScore is an integer in 0..100 whatever overall score
\* the model reported.
C6_OverallInRange == Returned => Result.overallScore \in 0..100

\* C7: with the model's overallScore missing or zero, the returned overallScore
\* is the rounded mean of the scores of the returned categories, placeholders
\* included, and 0 when there are none; a non-zero one is returned as reported.
C7_OverallIsMeanOfReturned ==
  Returned =>
    IF rawResults.overallScore = None \/ rawResults.overallScore = Some(0)
    THEN Result.overallScore =
           IF Len(ResultCats) = 0 THEN 0
           ELSE RoundDiv(SumScores(ResultCats, 1), Len(ResultCats))
    ELSE Result.overallScore = rawResults.overallScore[1]

\* C25: processResults returns a result without throwing, and without
\* modifying its arguments, for every value the model client can hand it
\* and every valid rubric.
C25_NeverThrowsNorModifies ==
  /\ [](prPc # "threw")
  /\ [][criteria' = criteria /\ rawResults' = rawResults]_vars

\* C26: every category of a processResults output has a status that is one
\* of excellent, good, fair, poor, whatever status the model reported.
C26_StatusIsOneOfFour ==
  Returned =>
    \A j \in 1..Len(ResultCats) :
      ResultCats[j].status \in {"excellent", "good", "fair", "poor"}

---------------------------------------------------------------------------
(* extractCriteria (js/criteria-extractor.js) *)
(* A document is a sequence of lines, a line a record of its kind and      *)
(* its cells:                                                              *)
(*   "marker"     a line that contains 'Table 2'                           *)
(*   "heading"    a line that starts with '# '                             *)
(*   "text"       another line that does not start with '|'                *)
(*   "header"     a table line that contains 'Proposal/Early Stage'        *)
(*   "separator"  a table line of dashes                                   *)
(*   "row"        another line that starts with '|'                        *)
(* A cell is one non-empty trimmed cell of a row: the category id its text *)
(* matches (\d+[a-z]), if any, and the length of its cleaned text.  A      *)
(* description is modelled by its length.                                  *)

Id7x == <<"7", "x">>

CATEGORY_DEFINITIONS ==
  << << <<"1", "a">>, "Data Description and Collection or Re-use" >>,
     << <<"1", "b">>, "Data Types, Formats, and Volumes" >>,
     << <<"2", "a">>, "Metadata and Documentation Standards" >>,
     << <<"2", "b">>, "Data Quality Control Measures" >>,
     << <<"3", "a">>, "Storage and Backup" >>,
     << <<"3", "b">>, "Data Access Management" >>,
     << <<"3", "c">>, "Data Security and Protection" >>,
     << <<"4", "a">>, "Personal Data and GDPR Compliance" >>,
     << <<"4", "b">>, "Intellectual Property Rights and Ownership" >>,
     << <<"4", "c">>, "Ethical Requirements and Approvals" >>,
     << <<"5", "a">>, "Data Sharing Plans and Restrictions" >>,
     << <<"5", "b">>, "Data Preservation and Archiving" >>,
     << <<"5", "c">>, "Access Methods and Software Tools" >>,
     << <<"5", "d">>, "Persistent Identifiers (PIDs)" >>,
     << <<"6", "a">>, "Data Management Roles and Responsibilities" >>,
     << <<"6", "b">>, "Resources for FAIR Data Management" >> >>

\* CATEGORY_DEFINITIONS[id], absent for an id that is not a key
categoryDefinition(id) ==
  IF \E k \in 1..Len(CATEGORY_DEFINITIONS) : CATEGORY_DEFINITIONS[k][1] = id
  THEN Some(CATEGORY_DEFINITIONS[CHOOSE k \in 1..Len(CATEGORY_DEFINITIONS) :
                                   CATEGORY_DEFINITIONS[k][1] = id][2])
  ELSE None

Phases == {"proposal", "mid", "end"}

\* phaseColumnMap[phase] || 0, as a 1-based index into the cells
columnIndex(ph) ==
  IF ph = "mid" THEN 2 ELSE IF ph = "end" THEN 3 ELSE 1

phaseDescription(ph) ==
  IF ph = "proposal" THEN "planned or proposed approach"
  ELSE IF ph = "mid" THEN "current implementation and progress"
  ELSE "final outcomes and compliance"

\* 'Evaluate the <phase description> for <name>.' by its length
defaultDescription(ph, name) ==
  Len("Evaluate the ") + Len(phaseDescription(ph)) + Len(" for ") + Len(name) + Len(".")

getDefaultCriteria(ph) ==
  [ phase |-> ph,
    categories |->
      [k \in 1..Len(CATEGORY_DEFINITIONS) |->
        [ id |-> CATEGORY_DEFINITIONS[k][1],
          name |-> CATEGORY_DEFINITIONS[k][2],
          description |-> defaultDescription(ph, CATEGORY_DEFINITIONS[k][2]) ]] ]

\* extractCategoryName(firstCell): the first question or line of the cell
extractCategoryName(cell) == "Name taken from the first cell"

\* cleanDescription(text, categoryId), by the length of what it returns
cleanDescription(cell) == cell.len

\* one iteration of the loop of parseTableRows over a line
\* st: [categories, currentCategoryId (optional)]
parseLine(st, line, ph) ==
  IF line.kind \in {"header", "separator"} THEN st
  ELSE IF line.kind # "row" THEN st
  ELSE IF Len(line.cells) < 3 THEN st
  ELSE
    LET firstCell == line.cells[1]
        described == line.cells[columnIndex(ph)]
    IN  IF firstCell.id # None
        THEN LET id == firstCell.id[1]
                 description == cleanDescription(described)
             IN  [ currentCategoryId |-> Some(id),
                   categories |->
                     IF description > 10
                     THEN Append(st.categories,
                            [ id |-> id,
                              name |-> OrStr(categoryDefinition(id), extractCategoryName(firstCell)),
                              description |-> description ])
                     ELSE st.categories ]
        ELSE IF st.currentCategoryId # None
        THEN LET additionalText == cleanDescription(described)
                 n == Len(st.categories)
             IN  IF /\ additionalText > 10
                    /\ n > 0
                    /\ st.categories[n].id = st.currentCategoryId[1]
                 THEN [st EXCEPT !.categories[n].description = @ + 2 + additionalText]
                 ELSE st
        ELSE st

RECURSIVE parseLinesFrom(_, _, _, _)
parseLinesFrom(st, lines, ph, i) ==
  IF i > Len(lines) THEN st
  ELSE parseLinesFrom(parseLine(st, lines[i], ph), lines, ph, i + 1)

parseTableRows(tableText, ph) ==
  [ phase |-> ph,
    categories |->
      parseLinesFrom([categories |-> <<>>, currentCategoryId |-> None],
                     tableText, ph, 1).categories ]

\* text.indexOf('Table 2'): the first marker line, 0 when there is none
table2Start(txt) ==
  IF \E i \in 1..Len(txt) : txt[i].kind = "marker"
  THEN CHOOSE i \in 1..Len(txt) :
         txt[i].kind = "marker" /\ \A j \in 1..(i - 1) : txt[j].kind # "marker"
  ELSE 0

\* the table portion: from the marker to the next '# ' heading or to the end
tableTextOf(txt) ==
  LET start == table2Start(txt)
      ends == {i \in (start + 1)..Len(txt) : txt[i].kind = "heading"}
      stop == IF ends = {} THEN Len(txt)
              ELSE (CHOOSE i \in ends : \A j \in ends : i <= j) - 1
  IN  SubSeq(txt, start, stop)

\* extractCriteria without the check for an empty category list
extractCriteriaNoEmptyCheck(txt, ph) ==
  IF table2Start(txt) = 0 THEN getDefaultCriteria(ph)
  ELSE parseTableRows(tableTextOf(txt), ph)

extractCriteria(txt, ph) ==
  IF table2Start(txt) = 0 THEN getDefaultCriteria(ph)
  ELSE LET parsed == parseTableRows(tableTextOf(txt), ph)
       IN  IF Len(parsed.categories) = 0 THEN getDefaultCriteria(ph)
           ELSE parsed

---------------------------------------------------------------------------
(* Inputs and specification of extractCriteria *)

NoCells == <<>>
Cell(id, len) == [id |-> id, len |-> len]

\* the cleaned lengths of the three phase columns of a row: all above 10, none
\* above 10, or only those of the first and the last column
RowLengths == {<<11, 11, 11>>, <<10, 10, 10>>, <<11, 10, 11>>}

Rows ==
  { [ kind |-> "row",
      cells |-> <<Cell(id, l[1]), Cell(None, l[2]), Cell(None, l[3])>> ] :
    id \in {None, Some(Id1a), Some(Id7x)}, l \in RowLengths }

\* a table line of two cells
ShortRows == {[kind |-> "row", cells |-> <<Cell(Some(Id1a), 11), Cell(None, 11)>>]}

Lines ==
  {[kind |-> k, cells |-> NoCells] : k \in {"marker", "heading", "text", "header", "separator"}}
    \cup Rows \cup ShortRows

InitEC ==
  /\ text \in SeqsUpTo(Lines, 0, MaxLines)
  /\ phase \in Phases
  /\ rubric = None
  /\ ecPc = "idle"
  /\ PrIdle
  /\ RwbIdle
  /\ LaterIdle

\* const criteria = window.CriteriaExtractor.extractCriteria(criteriaData.text, phase)
ExtractCriteria ==
  /\ ecPc = "idle"
  /\ rubric' = Some(extractCriteria(text, phase))
  /\ ecPc' = "returned"
  /\ UNCHANGED <<text, phase, prVars, rwbVars, laterVars>>

NextEC == ExtractCriteria

SpecEC == InitEC /\ [][NextEC]_vars

Extracted == ecPc = "returned"
Rubric == rubric[1]
HasMarker == \E i \in 1..Len(text) : text[i].kind = "marker"
ScanIsEmpty == HasMarker /\ parseTableRows(tableTextOf(text), phase).categories = <<>>
DefaultIds ==
  << <<"1", "a">>, <<"1", "b">>, <<"2", "a">>, <<"2", "b">>, <<"3", "a">>, <<"3", "b">>,
     <<"3", "c">>, <<"4", "a">>, <<"4", "b">>, <<"4", "c">>, <<"5", "a">>, <<"5", "b">>,
     <<"5", "c">>, <<"5", "d">>, <<"6", "a">>, <<"6", "b">> >>
RubricIds == [i \in 1..Len(Rubric.categories) |-> Rubric.categories[i].id]

\* C8: extractCriteria never returns an empty category list; without a
\* 'Table 2' marker, or when the table scan yields no entry, it returns the
\* default rubric of the phase with exactly the 16 ids 1a..6b.
C8_NeverEmptyRubric ==
  Extracted =>
    /\ Len(Rubric.categories) > 0
    /\ (~HasMarker \/ ScanIsEmpty) =>
         /\ RubricIds = DefaultIds
         /\ Len(Rubric.categories) = 16
         /\ Rubric.phase = phase

C8_Witness ==
  /\ Extracted
  /\ ScanIsEmpty
  /\ \E i \in 1..Len(text) : text[i].kind = "row" /\ Len(text[i].cells) = 3
  /\ RubricIds = DefaultIds

\* C22: in every rubric extractCriteria returns, for any text and phase, no
\* two entries share an id.
C22_RubricIdsUnique ==
  Extracted =>
    \A i, j \in 1..Len(Rubric.categories) :
      Rubric.categories[i].id = Rubric.categories[j].id => i = j

---------------------------------------------------------------------------
(* retryWithBackoff (js/api-config.js) *)
(* A call of fetchFn resolves with a response, given by its status, or     *)
(* rejects with an error, given by its message.                            *)

\* the default arguments
maxRetries == 3
initialDelay == 2000
\* the base delay of the 429 branch
rateLimitDelay == 5000

Resolved(status) == [kind |-> "response", status |-> status, message |-> ""]
Rejected(message) == [kind |-> "error", status |-> 0, message |-> message]

\* response.ok
IsOk(status) == status \in 200..299

Statuses == {200, 404, 429, 500, 503}
ErrorMessages == {"Failed to fetch", "Load failed", ""}

\* a loop condition that lets one more iteration run
loopConditionOffByOne(att) == att <= maxRetries + 1

\* attempt <= maxRetries, the condition of the for loop
loopCondition(att) == att <= maxRetries

\* a delay that grows by its base at each attempt
linearBackoff(base, att) == base * (att + 1)

\* base * Math.pow(2, attempt)
backoff(base, att) == base * 2 ^ att

\* a terminal message that drops the underlying failure
retryErrorMessageGeneric(err) ==
  <<"All retry attempts failed. Last error: ", "Unknown error">>

\* `All retry attempts failed. Last error: ${lastError?.message || 'Unknown error'}`
retryErrorMessage(err) ==
  <<"All retry attempts failed. Last error: ", OrStr(err, "Unknown error")>>

InitRWB ==
  /\ attempt = 0
  /\ outcomes = <<>>
  /\ delays = <<>>
  /\ response = None
  /\ lastError = None
  /\ thrown = None
  /\ rwbPc = "loop"
  /\ PrIdle
  /\ EcIdle
  /\ LaterIdle

\* an iteration whose response is ok: return response
FetchOk ==
  /\ rwbPc = "loop" /\ loopCondition(attempt)
  /\ \E st \in Statuses :
       /\ IsOk(st)
       /\ outcomes' = Append(outcomes, Resolved(st))
       /\ response' = Some(st)
  /\ rwbPc' = "returned"
  /\ UNCHANGED <<attempt, delays, lastError, thrown, prVars, ecVars, laterVars>>

\* an iteration whose response is a 5xx with retries left: wait, continue
FetchServerError ==
  /\ rwbPc = "loop" /\ loopCondition(attempt)
  /\ \E st \in Statuses :
       /\ ~IsOk(st) /\ st >= 500 /\ attempt < maxRetries
       /\ outcomes' = Append(outcomes, Resolved(st))
  /\ delays' = Append(delays, backoff(initialDelay, attempt))
  /\ attempt' = attempt + 1
  /\ UNCHANGED <<response, lastError, thrown, rwbPc, prVars, ecVars, laterVars>>

\* an iteration whose response is a 429 with retries left: wait, continue
FetchRateLimited ==
  /\ rwbPc = "loop" /\ loopCondition(attempt)
  /\ \E st \in Statuses :
       /\ ~IsOk(st) /\ ~(st >= 500 /\ attempt < maxRetries)
       /\ st = 429 /\ attempt < maxRetries
       /\ outcomes' = Append(outcomes, Resolved(st))
  /\ delays' = Append(delays, backoff(rateLimitDelay, attempt))
  /\ attempt' = attempt + 1
  /\ UNCHANGED <<response, lastError, thrown, rwbPc, prVars, ecVars, laterVars>>

\* an iteration whose response is any other one: return response
FetchOtherResponse ==
  /\ rwbPc = "loop" /\ loopCondition(attempt)
  /\ \E st \in Statuses :
       /\ ~IsOk(st)
       /\ ~(st >= 500 /\ attempt < maxRetries)
       /\ ~(st = 429 /\ attempt < maxRetries)
       /\ outcomes' = Append(outcomes, Resolved(st))
       /\ response' = Some(st)
  /\ rwbPc' = "returned"
  /\ UNCHANGED <<attempt, delays, lastError, thrown, prVars, ecVars, laterVars>>

\* an iteration whose fetchFn rejects with retries left: wait, go round
FetchNetworkError ==
  /\ rwbPc = "loop" /\ loopCondition(attempt)
  /\ attempt < maxRetries
  /\ \E m \in ErrorMessages :
       /\ outcomes' = Append(outcomes, Rejected(m))
       /\ lastError' = Some(m)
  /\ delays' = Append(delays, backoff(initialDelay, attempt))
  /\ attempt' = attempt + 1
  /\ UNCHANGED <<response, thrown, rwbPc, prVars, ecVars, laterVars>>

\* an iteration whose fetchFn rejects with no retry left: the loop ends and
\* the function throws
FetchLastNetworkError ==
  /\ rwbPc = "loop" /\ loopCondition(attempt)
  /\ ~(attempt < maxRetries)
  /\ \E m \in ErrorMessages :
       /\ outcomes' = Append(outcomes, Rejected(m))
       /\ lastError' = Some(m)
       /\ IF loopCondition(attempt + 1)
          THEN thrown' = thrown /\ rwbPc' = rwbPc
          ELSE thrown' = Some(retryErrorMessage(Some(m))) /\ rwbPc' = "threw"
  /\ attempt' = attempt + 1
  /\ UNCHANGED <<response, delays, prVars, ecVars, laterVars>>

NextRWB ==
  \/ FetchOk
  \/ FetchServerError
  \/ FetchRateLimited
  \/ FetchOtherResponse
  \/ FetchNetworkError
  \/ FetchLastNetworkError

SpecRWB == InitRWB /\ [][NextRWB]_vars

---------------------------------------------------------------------------
(* Properties of retryWithBackoff *)

Finished == rwbPc \in {"returned", "threw"}
Is5xx(o) == o.kind = "response" /\ o.status \in 500..599
Is429(o) == o.kind = "response" /\ o.status = 429
IsNetworkError(o) == o.kind = "error"
Retried(o) == Is5xx(o) \/ Is429(o) \/ IsNetworkError(o)

\* C9: the delay waited after failed attempt k (k = 0, 1, 2) is 2000 * 2^k ms
\* after a 5xx or a network error and 5000 * 2^k ms after a 429; none is
\* waited after the last attempt; 500, 500, OK gives the OK response after
\* the two delays 2000 and 4000.
C9_BackoffDelays ==
  /\ Len(delays) <= 3
  /\ Len(delays) = IF Finished THEN Len(outcomes) - 1 ELSE Len(outcomes)
  /\ \A k \in 1..Len(delays) :
       /\ (Is5xx(outcomes[k]) \/ IsNetworkError(outcomes[k])) =>
            delays[k] = <<2000, 4000, 8000>>[k]
       /\ Is429(outcomes[k]) => delays[k] = <<5000, 10000, 20000>>[k]
  /\ (Finished /\ outcomes = <<Resolved(500), Resolved(500), Resolved(200)>>) =>
       /\ rwbPc = "returned" /\ response = Some(200)
       /\ delays = <<2000, 4000>>

C9_Witness ==
  /\ rwbPc = "returned"
  /\ outcomes = <<Resolved(500), Resolved(500), Resolved(200)>>
  /\ response = Some(200)
  /\ delays = <<2000, 4000>>

\* C10: fetchFn is invoked at most 4 times, and the first attempt that gives an
\* OK response, or a non-OK one that is neither 5xx nor 429, ends the function:
\* it returns that response with no further delay and no further invocation.
C10_AtMostFourCallsStopAtFirstFinal ==
  /\ Len(outcomes) <= 4
  /\ \A k \in 1..Len(outcomes) :
       ~Retried(outcomes[k]) =>
         /\ k = Len(outcomes)
         /\ rwbPc = "returned"
         /\ response = Some(outcomes[k].status)
         /\ Len(delays) = k - 1

C10_Witness ==
  /\ rwbPc = "returned"
  /\ Len(outcomes) = 3
  /\ IsNetworkError(outcomes[1]) /\ Is429(outcomes[2])
  /\ outcomes[3] = Resolved(404)
  /\ response = Some(404)
  /\ Len(delays) = 2

\* C11: when each of the 4 attempts fails at the network level the function
\* throws, it throws only after the 4th attempt and never while attempts
\* remain, nothing follows the throw, and the thrown message carries the
\* message of the last network error ('Unknown error' when that is empty).
AllNetworkErrors ==
  /\ Len(outcomes) = maxRetries + 1
  /\ \A k \in 1..Len(outcomes) : IsNetworkError(outcomes[k])

C11_ThrowsOnceAfterFourNetworkErrors ==
  /\ (thrown # None) <=> (rwbPc = "threw")
  /\ Len(outcomes) < maxRetries + 1 => thrown = None
  /\ AllNetworkErrors =>
       /\ rwbPc = "threw"
       /\ response = None
       /\ attempt = maxRetries + 1
       /\ thrown = Some(<<"All retry attempts failed. Last error: ",
                          IF outcomes[4].message = "" THEN "Unknown error"
                          ELSE outcomes[4].message>>)
  /\ rwbPc = "threw" => IsNetworkError(outcomes[Len(outcomes)])

C11_Witness ==
  /\ AllNetworkErrors
  /\ outcomes[3].message = "Failed to fetch"
  /\ outcomes[4].message = "Load failed"
  /\ thrown = Some(<<"All retry attempts failed. Last error: ", "Load failed">>)

\* C29: for every sequence of attempt outcomes the function throws exactly
\* when its 4th attempt raised a network error, and the message then carries
\* that error; a response of the 4th attempt, a 5xx or 429 included, is
\* returned, whatever the earlier attempts raised.
C29_ThrowsIffLastAttemptNetworkError ==
  /\ rwbPc = "threw" <=>
       (Len(outcomes) = 4 /\ outcomes[4].kind = "error")
  /\ rwbPc = "threw" =>
       thrown = Some(<<"All retry attempts failed. Last error: ",
                       IF outcomes[4].message = "" THEN "Unknown error"
                       ELSE outcomes[4].message>>)
  /\ (Len(outcomes) = 4 /\ outcomes[4].kind = "response") =>
       /\ rwbPc = "returned"
       /\ thrown = None
       /\ response = Some(outcomes[4].status)

C29_Witness ==
  /\ Len(outcomes) = 4
  /\ outcomes[1].kind = "error" /\ outcomes[2].status = 429
  /\ outcomes[3].kind = "error"
  /\ outcomes[4] = Resolved(503)
  /\ rwbPc = "returned"
  /\ response = Some(503)

---------------------------------------------------------------------------
(* repairJSON (js/api-config.js) and the parse error of evaluateDMP.       *)
(* A text is a sequence of characters; the fence markers ```json and ```   *)
(* are one element each.  A parsed value is written as its characters      *)
(* without white space, the members of an object in insertion order.       *)

\* most members of an object of an input text
MaxMembers == 2

\* the markers of a code fence, ```json and ```, one element each
FenceJson == "<fence json>"
Fence == "<fence>"

\* \s of the regular expressions, white space of JSON
Ws == {" ", "\n"}
\* [a-zA-Z_] and [a-zA-Z0-9_]
IdentStart == {"a", "b", "c", "_"}
IdentPart == IdentStart \cup {"1"}

At(s, i) == IF i \in 1..Len(s) THEN s[i] ELSE "<end>"

\* the first index from i on that holds no white space
RECURSIVE SkipWs(_, _)
SkipWs(s, i) == IF At(s, i) \in Ws THEN SkipWs(s, i + 1) ELSE i

\* the first index from i on that holds no identifier character
RECURSIVE SkipIdent(_, _)
SkipIdent(s, i) == IF At(s, i) \in IdentPart THEN SkipIdent(s, i + 1) ELSE i

\* ----- JSON.parse
Fail == [ok |-> FALSE, next |-> 0, val |-> <<>>]
Ok(n, v) == [ok |-> TRUE, next |-> n, val |-> v]

\* the index of the quote that closes a string whose content starts at i,
\* 0 when the text or the line ends first
RECURSIVE StringEnd(_, _)
StringEnd(s, i) ==
  IF i > Len(s) \/ s[i] = "\n" THEN 0
  ELSE IF s[i] = "\"" THEN i
  ELSE StringEnd(s, i + 1)

ParseString(s, i) ==
  LET j == StringEnd(s, i + 1)
  IN  IF j = 0 THEN Fail ELSE Ok(j + 1, SubSeq(s, i, j))

RECURSIVE NumberEnd(_, _)
NumberEnd(s, i) == IF At(s, i) = "1" THEN NumberEnd(s, i + 1) ELSE i

ParseNumber(s, i) == Ok(NumberEnd(s, i), SubSeq(s, i, NumberEnd(s, i) - 1))

\* obj[k] = v: a repeated key keeps its place and takes the later value
SetMember(acc, k, v) ==
  IF \E n \in 1..Len(acc) : acc[n][1] = k
  THEN [n \in 1..Len(acc) |-> IF acc[n][1] = k THEN <<k, v>> ELSE acc[n]]
  ELSE Append(acc, <<k, v>>)

RECURSIVE Joined(_)
Joined(parts) ==
  IF parts = <<>> THEN <<>>
  ELSE IF Len(parts) = 1 THEN parts[1]
  ELSE parts[1] \o <<",">> \o Joined(Tail(parts))

ObjectChars(acc) ==
  <<"{">> \o Joined([n \in 1..Len(acc) |-> acc[n][1] \o <<":">> \o acc[n][2]])
          \o <<"}">>
ArrayChars(acc) == <<"[">> \o Joined(acc) \o <<"]">>

RECURSIVE ParseValue(_, _), ParseMembers(_, _, _), ParseElements(_, _, _)
ParseValue(s, i) ==
  LET j == SkipWs(s, i)
      c == At(s, j)
      k == SkipWs(s, j + 1)
  IN  CASE c = "\"" -> ParseString(s, j)
        [] c = "1" -> ParseNumber(s, j)
        [] c = "{" -> IF At(s, k) = "}" THEN Ok(k + 1, <<"{", "}">>)
                      ELSE ParseMembers(s, k, <<>>)
        [] c = "[" -> IF At(s, k) = "]" THEN Ok(k + 1, <<"[", "]">>)
                      ELSE ParseElements(s, k, <<>>)
        [] OTHER -> Fail

ParseMembers(s, i, acc) ==
  LET j == SkipWs(s, i)
      key == ParseString(s, j)
      c == SkipWs(s, key.next)
      v == ParseValue(s, c + 1)
      e == SkipWs(s, v.next)
      acc2 == SetMember(acc, key.val, v.val)
  IN  IF At(s, j) # "\"" THEN Fail
      ELSE IF ~key.ok THEN Fail
      ELSE IF At(s, c) # ":" THEN Fail
      ELSE IF ~v.ok THEN Fail
      ELSE CASE At(s, e) = "," -> ParseMembers(s, e + 1, acc2)
             [] At(s, e) = "}" -> Ok(e + 1, ObjectChars(acc2))
             [] OTHER -> Fail

ParseElements(s, i, acc) ==
  LET v == ParseValue(s, i)
      e == SkipWs(s, v.next)
      acc2 == Append(acc, v.val)
  IN  IF ~v.ok THEN Fail
      ELSE CASE At(s, e) = "," -> ParseElements(s, e + 1, acc2)
             [] At(s, e) = "]" -> Ok(e + 1, ArrayChars(acc2))
             [] OTHER -> Fail

\* JSON.parse(s): the value, absent when it throws a SyntaxError
JSONparse(s) ==
  LET r == ParseValue(s, 1)
  IN  IF r.ok /\ SkipWs(s, r.next) = Len(s) + 1 THEN Some(r.val) ELSE None

\* ----- the three repairs
\* replace(/```json\s*/g, '') and replace(/```\s*/g, ''): each marker goes
\* with the white space after it
RECURSIVE StripFence(_, _, _)
StripFence(s, marker, i) ==
  IF i > Len(s) THEN <<>>
  ELSE IF s[i] = marker THEN StripFence(s, marker, SkipWs(s, i + 1))
  ELSE <<s[i]>> \o StripFence(s, marker, i + 1)

\* replace(/,(\s*[}\]])/g, '$1')
RECURSIVE RemoveTrailingCommas(_, _)
RemoveTrailingCommas(s, i) ==
  LET b == SkipWs(s, i + 1)
  IN  IF i > Len(s) THEN <<>>
      ELSE IF s[i] = "," /\ At(s, b) \in {"}", "]"}
           THEN SubSeq(s, i + 1, b) \o RemoveTrailingCommas(s, b + 1)
      ELSE <<s[i]>> \o RemoveTrailingCommas(s, i + 1)

\* replace(/(\{|,)\s*([a-zA-Z_][a-zA-Z0-9_]*)\s*:/g, '$1"$2":')
RECURSIVE QuoteKeys(_, _)
QuoteKeys(s, i) ==
  LET a == SkipWs(s, i + 1)
      b == SkipIdent(s, a)
      c == SkipWs(s, b)
  IN  IF i > Len(s) THEN <<>>
      ELSE IF /\ s[i] \in {"{", ","}
              /\ At(s, a) \in IdentStart
              /\ At(s, c) = ":"
           THEN <<s[i], "\"">> \o SubSeq(s, a, b - 1) \o <<"\"", ":">>
                  \o QuoteKeys(s, c + 1)
      ELSE <<s[i]>> \o QuoteKeys(s, i + 1)

\* the text handed to the second JSON.parse
repaired(s) ==
  QuoteKeys(
    RemoveTrailingCommas(
      StripFence(StripFence(s, FenceJson, 1), Fence, 1), 1), 1)

repairJSON(s) ==
  IF JSONparse(s) # None THEN JSONparse(s) ELSE JSONparse(repaired(s))

\* !result of evaluateDMP: null and the empty string are falsy
Falsy(result) == result = None \/ result[1] = <<"\"", "\"">>

\* ----- input texts
\* the contents of the string values
StrContents ==
  { <<>>, <<"a">>, <<"a", " ", "b">>,
    <<"a", ",", " ", "b", ":", " ", "c">>,
    <<"a", ",", "}">>, <<"{", "a", ":">>, <<Fence>> }
JStr(c) == <<"\"">> \o c \o <<"\"">>
Scalars == {<<"1">>, <<"1", "1">>} \cup {JStr(c) : c \in StrContents}
Values ==
  Scalars \cup {<<"[", "]">>, <<"{", "}">>}
          \cup {ArrayChars(<<v>>) : v \in Scalars}
          \cup {ArrayChars(<<v, <<"1">>>>) : v \in Scalars}
KeyNames == <<"a", "b", "c", "_">>

\* the member lists of n members: the first value is any value, the others
\* are scalars
RECURSIVE MemberLists(_)
MemberLists(n) ==
  IF n = 1 THEN {<< <<KeyNames[1], v>> >> : v \in Values}
  ELSE {Append(ms, <<KeyNames[n], v>>) :
          ms \in MemberLists(n - 1), v \in {<<"1">>, JStr(<<"a">>)}}
AllMemberLists == UNION {MemberLists(n) : n \in 1..MaxMembers}

\* the text of an object: keys quoted or bare, with or without a comma before
\* the closing brace
ObjText(ms, quoted, comma) ==
  <<"{">>
  \o Joined([n \in 1..Len(ms) |->
       (IF quoted THEN JStr(<<ms[n][1]>>) ELSE <<ms[n][1]>>)
         \o <<":">> \o ms[n][2]])
  \o (IF comma THEN <<",">> ELSE <<>>) \o <<"}">>

\* ```json, line break, the text, line break, ```
Fenced(t) == <<FenceJson, "\n">> \o t \o <<"\n", Fence>>
\* the text with white space after the opening and before the closing brace
Padded(t) ==
  <<t[1], " ">> \o SubSeq(t, 2, Len(t) - 1) \o <<"\n", t[Len(t)]>>
\* the text without its last character
Truncated(t) == SubSeq(t, 1, Len(t) - 1)

ObjectTexts ==
  {ObjText(ms, q, c) : ms \in AllMemberLists, q \in BOOLEAN, c \in BOOLEAN}
RjInputs ==
  Values \cup ObjectTexts
         \cup {Fenced(t) : t \in ObjectTexts}
         \cup {Padded(t) : t \in ObjectTexts}
         \cup {Truncated(t) : t \in ObjectTexts}

InitRJ ==
  /\ rjText \in RjInputs
  /\ rjResult = None
  /\ rjError = None
  /\ rjPc = "idle"
  /\ IdleButRj

\* const result = repairJSON(content); if (!result) throw new Error(...)
RepairJSON ==
  /\ rjPc = "idle"
  /\ rjResult' = repairJSON(rjText)
  /\ rjError' = IF Falsy(repairJSON(rjText))
                THEN Some("Failed to parse evaluation results as JSON")
                ELSE None
  /\ rjPc' = "done"
  /\ UNCHANGED <<rjText, exceptRj>>

NextRJ == RepairJSON

SpecRJ == InitRJ /\ [][NextRJ]_vars

---------------------------------------------------------------------------
(* Properties of repairJSON *)

\* C12: repairJSON returns the parsed value of a valid JSON text; for a
\* valid object with quoted keys, wrapped in a ```json fence and carrying a
\* comma before its closing brace, it returns that object; when neither the
\* text nor the repaired text parses it returns null and evaluateDMP throws
\* 'Failed to parse evaluation results as JSON'.
C12_RepairJSON ==
  rjPc = "done" =>
    /\ \A v \in Values : rjText = v => rjResult = Some(v)
    /\ \A ms \in AllMemberLists :
         /\ rjText \in {ObjText(ms, TRUE, FALSE),
                        Padded(ObjText(ms, TRUE, FALSE))} =>
              rjResult = Some(ObjText(ms, TRUE, FALSE))
         /\ rjText = Fenced(ObjText(ms, TRUE, TRUE)) =>
              rjResult = Some(ObjText(ms, TRUE, FALSE))
    /\ (JSONparse(rjText) = None /\ JSONparse(repaired(rjText)) = None) =>
         /\ rjResult = None
         /\ rjError = Some("Failed to parse evaluation results as JSON")

---------------------------------------------------------------------------
(* parseSSEStream (js/api-config.js).  The byte stream is a sequence of    *)
(* symbols: the line break, the carriage return, the prefix 'data: ' and   *)
(* the payloads; a read delivers any non-empty run of them.                *)

\* most lines of a stream
MaxEvents == 2

\* the payloads of the data lines
Done == "[DONE]"
ContentA == "{choices:[{delta:{content:'a'}}]}"
ReasoningR == "{choices:[{delta:{reasoning:'r'}}]}"
ContentBLength == "{choices:[{delta:{content:'b'},finish_reason:'length'}]}"
EmptyDeltaStop == "{choices:[{delta:{},finish_reason:'stop'}]}"
NoDeltaStop == "{choices:[{finish_reason:'stop'}]}"
NotJson == "{choices:"
Payloads ==
  {Done, ContentA, ReasoningR, ContentBLength, EmptyDeltaStop, NoDeltaStop,
   NotJson}

\* JSON.parse(data) and the fields read from it: chunk.choices?.[0]?.delta,
\* delta.reasoning, delta.content, chunk.choices?.[0]?.finish_reason
chunkOf(data) ==
  CASE data = ContentA ->
         [json |-> TRUE, delta |-> TRUE, reasoning |-> None,
          content |-> Some("a"), finish |-> None]
    [] data = ReasoningR ->
         [json |-> TRUE, delta |-> TRUE, reasoning |-> Some("r"),
          content |-> None, finish |-> None]
    [] data = ContentBLength ->
         [json |-> TRUE, delta |-> TRUE, reasoning |-> None,
          content |-> Some("b"), finish |-> Some("length")]
    [] data = EmptyDeltaStop ->
         [json |-> TRUE, delta |-> TRUE, reasoning |-> None,
          content |-> None, finish |-> Some("stop")]
    [] data = NoDeltaStop ->
         [json |-> TRUE, delta |-> FALSE, reasoning |-> None,
          content |-> None, finish |-> Some("stop")]
    [] OTHER ->
         [json |-> FALSE, delta |-> FALSE, reasoning |-> None,
          content |-> None, finish |-> None]

\* buffer.split('\n'): the lines before each line break, and the rest
RECURSIVE SplitFrom(_, _, _, _)
SplitFrom(s, i, cur, acc) ==
  IF i > Len(s) THEN [lines |-> acc, rest |-> cur]
  ELSE IF s[i] = "\n" THEN SplitFrom(s, i + 1, <<>>, Append(acc, cur))
  ELSE SplitFrom(s, i + 1, Append(cur, s[i]), acc)
splitLines(s) == SplitFrom(s, 1, <<>>, <<>>)

\* line.trim(): without the carriage returns at its ends (the space that
\* ends the prefix 'data: ' goes too when nothing follows it)
RECURSIVE trim(_)
trim(line) ==
  IF line = <<>> THEN line
  ELSE IF line[1] = "\r" THEN trim(Tail(line))
  ELSE IF line[Len(line)] = "\r" THEN trim(SubSeq(line, 1, Len(line) - 1))
  ELSE line

\* trimmedLine.startsWith('data: ')
startsWithData(line) == Len(line) >= 2 /\ line[1] = "data: "
\* trimmedLine.substring(6): one payload, or something that is no JSON
dataOf(line) == IF Len(line) = 2 THEN line[2] ELSE NotJson

\* the accumulators after a chunk's delta
accumulate(st, c) ==
  LET afterR ==
        IF c.reasoning # None
        THEN [st EXCEPT !.reasoning = Append(@, c.reasoning[1]),
                        !.calls = Append(@, <<c.reasoning[1], TRUE>>)]
        ELSE st
  IN  IF c.content # None
      THEN [afterR EXCEPT !.content = Append(@, c.content[1]),
                          !.calls = Append(@, <<c.content[1], FALSE>>)]
      ELSE afterR

\* finishReason === 'stop' || finishReason === 'length'
terminalFinish(c) == c.finish \in {Some("stop"), Some("length")}

RECURSIVE forLines(_, _, _)

\* a parse error that ends the loop over the lines of the read
parseErrorEndsLoop(lines, i, st) == st

\* catch (parseError): a warning, then the next line
catchParseError(lines, i, st) == forLines(lines, i + 1, st)

\* the for loop over the lines of one read, from line i on
forLines(lines, i, st) ==
  LET line == trim(lines[i])
      c == chunkOf(dataOf(line))
  IN  IF i > Len(lines) THEN st
      ELSE IF line = <<>> THEN forLines(lines, i + 1, st)
      ELSE IF ~startsWithData(line) THEN forLines(lines, i + 1, st)
      ELSE IF dataOf(line) = Done THEN st
      ELSE IF ~c.json THEN catchParseError(lines, i, st)
      ELSE IF ~c.delta THEN forLines(lines, i + 1, st)
      ELSE IF terminalFinish(c) THEN accumulate(st, c)
      ELSE forLines(lines, i + 1, accumulate(st, c))

\* ----- streams
DataLine(p) == <<"data: ", p>>
SseLines ==
  {DataLine(p) : p \in Payloads}
    \cup {<<"data: ", ContentA, "\r">>, <<"\r">>, <<": keep-alive">>}

RECURSIVE StreamsOf(_)
StreamsOf(n) ==
  IF n = 0 THEN {<<>>}
  ELSE {l \o <<"\n">> \o s : l \in SseLines, s \in StreamsOf(n - 1)}
\* every line ends with a line break, but the last one need not
Streams ==
  UNION {StreamsOf(n) : n \in 0..MaxEvents}
    \cup {s \o l : s \in StreamsOf(MaxEvents - 1), l \in SseLines}

InitSSE ==
  /\ sseStream \in Streams
  /\ ssePos = 0
  /\ sseBuffer = <<>>
  /\ sseContent = <<>>
  /\ sseReasoning = <<>>
  /\ sseCalls = <<>>
  /\ sseResult = None
  /\ ssePc = "reading"
  /\ IdleButSse

\* reader.read() gives a chunk: one turn of the while loop
ReadChunk ==
  /\ ssePc = "reading"
  /\ \E n \in 1..(Len(sseStream) - ssePos) :
       LET value == SubSeq(sseStream, ssePos + 1, ssePos + n)
           split == splitLines(sseBuffer \o value)
           st == forLines(split.lines, 1,
                          [content |-> sseContent, reasoning |-> sseReasoning,
                           calls |-> sseCalls])
       IN  /\ ssePos' = ssePos + n
           /\ sseBuffer' = split.rest
           /\ sseContent' = st.content
           /\ sseReasoning' = st.reasoning
           /\ sseCalls' = st.calls
  /\ UNCHANGED <<sseStream, sseResult, ssePc, exceptSse>>

\* reader.read() gives done: return accumulatedContent || accumulatedReasoning
ReadDone ==
  /\ ssePc = "reading"
  /\ ssePos = Len(sseStream)
  /\ sseResult' = Some(IF sseContent # <<>> THEN sseContent ELSE sseReasoning)
  /\ ssePc' = "returned"
  /\ UNCHANGED <<sseStream, ssePos, sseBuffer, sseContent, sseReasoning,
                 sseCalls, exceptSse>>

\* reader.read() rejects: the error is thrown again
ReadError ==
  /\ ssePc = "reading"
  /\ ssePc' = "threw"
  /\ UNCHANGED <<sseStream, ssePos, sseBuffer, sseContent, sseReasoning,
                 sseCalls, sseResult, exceptSse>>

NextSSE ==
  \/ ReadChunk
  \/ ReadDone
  \/ ReadError

SpecSSE == InitSSE /\ [][NextSSE]_vars

---------------------------------------------------------------------------
(* Properties of parseSSEStream *)

\* the complete lines that the reads have delivered so far
DeliveredLines == splitLines(SubSeq(sseStream, 1, ssePos)).lines

\* a data line with the payload [DONE] or with a finish_reason stop or length
IsTerminator(l) ==
  /\ startsWithData(trim(l))
  /\ \/ dataOf(trim(l)) = Done
     \/ terminalFinish(chunkOf(dataOf(trim(l))))

\* what the data lines of a sequence of lines hold, all of them
RECURSIVE deliverAll(_, _, _)
deliverAll(lines, i, st) ==
  IF i > Len(lines) THEN st
  ELSE IF startsWithData(trim(lines[i]))
       THEN deliverAll(lines, i + 1,
                       accumulate(st, chunkOf(dataOf(trim(lines[i])))))
  ELSE deliverAll(lines, i + 1, st)

NothingYet == [content |-> <<>>, reasoning |-> <<>>, calls |-> <<>>]

\* C13: once a [DONE] line or an event with finish_reason stop or length has
\* been processed, the accumulated content and reasoning and the callbacks
\* made are those of the lines up to it: no line that follows it, in the same
\* read or in a later one, adds to them.
C13_NothingAfterTerminator ==
  LET T == {t \in 1..Len(DeliveredLines) : IsTerminator(DeliveredLines[t])}
      first == CHOOSE t \in T : \A u \in T : t <= u
      upTo == deliverAll(SubSeq(DeliveredLines, 1, first), 1, NothingYet)
  IN  T # {} =>
        /\ sseContent = upTo.content
        /\ sseReasoning = upTo.reasoning
        /\ sseCalls = upTo.calls

\* a data line whose payload is not valid JSON
IsMalformed(l) ==
  /\ startsWithData(trim(l))
  /\ dataOf(trim(l)) # Done
  /\ ~chunkOf(dataOf(trim(l))).json
WellFormed(l) == ~IsMalformed(l)

IsPrefix(s, t) == Len(s) <= Len(t) /\ SubSeq(t, 1, Len(s)) = s

\* the lines delivered before the first terminating line
BeforeTerminator ==
  LET T == {t \in 1..Len(DeliveredLines) : IsTerminator(DeliveredLines[t])}
  IN  IF T = {} THEN DeliveredLines
      ELSE SubSeq(DeliveredLines, 1, (CHOOSE t \in T : \A u \in T : t <= u) - 1)
Terminated == \E t \in 1..Len(DeliveredLines) : IsTerminator(DeliveredLines[t])

\* C23: a data line whose payload is not valid JSON changes nothing and
\* does not abort the stream: the content, the reasoning and the callbacks
\* are those of the other lines, and every valid data line after it, before
\* a terminating event, is accumulated and forwarded.
C23_MalformedLineSkipped ==
  LET expected == deliverAll(SelectSeq(BeforeTerminator, WellFormed), 1, NothingYet)
  IN  /\ IsPrefix(expected.content, sseContent)
      /\ IsPrefix(expected.reasoning, sseReasoning)
      /\ IsPrefix(expected.calls, sseCalls)
      /\ ~Terminated =>
           /\ sseContent = expected.content
           /\ sseReasoning = expected.reasoning
           /\ sseCalls = expected.calls

\* a malformed line was followed by a content line, which was forwarded
C23_Witness ==
  /\ ssePc = "returned"
  /\ Len(DeliveredLines) = 2
  /\ IsMalformed(DeliveredLines[1])
  /\ DeliveredLines[2] = DataLine(ContentA)
  /\ sseCalls = << <<"a", FALSE>> >>
  /\ sseResult = Some(<<"a">>)

\* what parseSSEStream gives when the whole stream arrives in one read
OneRead == forLines(splitLines(sseStream).lines, 1, NothingYet)

\* C28: the returned string and the sequence of (chunk, isReasoning)
\* callbacks depend only on the concatenated stream, not on how it is
\* divided into reads: they are those of the stream read in one piece.
C28_SameForEveryDivisionIntoReads ==
  ssePc = "returned" =>
    /\ sseCalls = OneRead.calls
    /\ sseResult = Some(IF OneRead.content # <<>> THEN OneRead.content
                        ELSE OneRead.reasoning)

---------------------------------------------------------------------------
(* evaluate (js/evaluator.js) with the file decoders (FILE PARSER) and     *)
(* evaluateDMP (js/api-config.js).  A file is given by its extension, by   *)
(* whether its content is a ZIP archive, and by the length of the text     *)
(* that its decoder extracts; a network request is a call of fetch.        *)

\* most chunks forwarded from a streamed response
MaxChunks == 2
\* the latest call of onProgress that may throw
MaxThrowAt == 11
\* dmpData.text.length < 100, rawText.length < 100
MinTextLength == 100

FileTypes == {"txt", "json", "docx", "doc", "pdf", "html", "htm", "md", "markdown"}
TextLengths == {50, 99, 100, 500}
\* the lengths of the text that the clean-up request can give back
CleanedLengths == {50, 500}

Id1b == <<"1", "b">>
\* a criteria document with a Table 2 of two rows, 1a and 1b
TwoRowTable ==
  << [kind |-> "marker", cells |-> NoCells],
     [kind |-> "row", cells |-> <<Cell(Some(Id1a), 11), Cell(None, 11), Cell(None, 11)>>],
     [kind |-> "row", cells |-> <<Cell(Some(Id1b), 11), Cell(None, 11), Cell(None, 11)>>] >>
\* a criteria document without a Table 2
NoTable == <<[kind |-> "text", cells |-> NoCells]>>

File(role, ext, zip, len, doc) ==
  [name |-> <<role, ext>>, ext |-> ext, zip |-> zip, len |-> len, doc |-> doc]

\* ----- FileParser.parseFile: the ways a decoding can end
Decoded(len, requests) == [text |-> Some(len), error |-> None, requests |-> requests]
DecodeError(m) == [text |-> None, error |-> Some(m), requests |-> 0]

\* one fetch when a key is stored; the text that comes back, or the raw text
\* when the request fails
cleanTextWithAI(rawLen, apiKey) ==
  IF ~apiKey THEN {Decoded(rawLen, 0)}
  ELSE {Decoded(l, 1) : l \in CleanedLengths \cup {rawLen}}

\* a clean-up that is attempted in test mode too
cleanupAlways(testMode) == TRUE
\* window.LLMService && !window.LLMService.isTestMode()
cleanupWanted(testMode) == ~testMode

extractDocTextWithAI(file, testMode, apiKey) ==
  IF file.len < MinTextLength
  THEN {DecodeError("Insufficient text extracted from .doc file. Please save as .docx or paste text.")}
  ELSE IF cleanupWanted(testMode) THEN cleanTextWithAI(file.len, apiKey)
  ELSE {Decoded(file.len, 0)}

parseDocxFile(file, testMode, apiKey) ==
  IF ~file.zip
  THEN {IF o.error # None
        THEN DecodeError("DOC file could not be parsed. Try: Save as .docx or use \"Paste Text Instead\".")
        ELSE o : o \in extractDocTextWithAI(file, testMode, apiKey)}
  ELSE {Decoded(file.len, 0)}

parseFile(file, testMode, apiKey) ==
  IF file.ext \in {"docx", "doc"}
  THEN parseDocxFile(file, testMode, apiKey) \cup {DecodeError("File read failed")}
  ELSE IF file.ext \in FileTypes
  THEN {Decoded(file.len, 0), DecodeError("File read failed")}
  ELSE {DecodeError("Unsupported file type")}

\* ----- CriteriaExtractor.validateCriteria
validateCriteria(crit) ==
  /\ Len(crit.categories) # 0
  /\ \A k \in 1..Len(crit.categories) :
       /\ crit.categories[k].id # <<>>
       /\ crit.categories[k].name # ""
       /\ crit.categories[k].description # 0

\* ----- the results of the model client
TestCat(id, name, score, status) ==
  [ id |-> Some(id), name |-> Some(name), score |-> Some(score),
    status |-> Some(status), feedback |-> Some("Feedback of the sample data") ]

TEST_EVALUATION_DATA ==
  [ overallScore |-> Some(75),
    categories |-> Some(<<
      TestCat(<<"1", "a">>, "Data Description and Collection", 80, "good"),
      TestCat(<<"1", "b">>, "Data Updates", 70, "fair"),
      TestCat(<<"2", "a">>, "Documentation and Metadata", 75, "good"),
      TestCat(<<"2", "b">>, "Data Quality", 65, "fair"),
      TestCat(<<"3", "a">>, "Storage Solutions", 85, "good"),
      TestCat(<<"3", "b">>, "Data Security", 70, "fair"),
      TestCat(<<"4", "a">>, "Legal and Ethical Requirements", 60, "fair"),
      TestCat(<<"4", "b">>, "IPR and Ownership", 75, "good"),
      TestCat(<<"5", "a">>, "Data Sharing Plans", 80, "good"),
      TestCat(<<"5", "b">>, "Long-term Preservation", 85, "excellent"),
      TestCat(<<"6", "a">>, "Roles and Responsibilities", 70, "fair"),
      TestCat(<<"6", "b">>, "Resources", 65, "fair") >>) ]

\* what a live model answers: nothing, text that is no JSON, or a result
LiveResult ==
  [ overallScore |-> Some(80),
    categories |-> Some(<<
      [ id |-> Some(Id1a), name |-> Some(ModelName), score |-> Some(80),
        status |-> None, feedback |-> Some(ModelFeedback) ] >>) ]
LiveContents == {"", "no JSON", "a result"}

\* ----- the steps between two awaits: calls of onProgress and checks
CallbackError == "error thrown by onProgress"
ModelEventMessage == "AI: [object Object]"

\* updateProgress(onProgress, msg)
Notify(msg) == [op |-> "notify", msg |-> msg, event |-> None, cond |-> FALSE]
\* onProgress({type: ...}) of evaluateDMP, which evaluate hands on as
\* updateProgress(onProgress, `AI: ${msg}`)
Emit(type) ==
  [op |-> "notify", msg |-> ModelEventMessage, event |-> Some(type), cond |-> FALSE]
\* if (cond) throw new Error(msg)
ThrowIf(cond, msg) == [op |-> "throwIf", msg |-> msg, event |-> None, cond |-> cond]

\* runs the steps from step i on; st: [progress, events, error (optional)]
RECURSIVE RunSteps(_, _, _, _)
RunSteps(steps, i, st, throwAt) ==
  IF i > Len(steps) THEN st
  ELSE IF steps[i].op = "notify"
  THEN LET called == [st EXCEPT !.progress = Append(@, steps[i].msg),
                                !.events = IF steps[i].event = None THEN @
                                           ELSE Append(@, steps[i].event[1])]
       IN  IF Len(called.progress) = throwAt
           THEN [called EXCEPT !.error = Some(CallbackError)]
           ELSE RunSteps(steps, i + 1, called, throwAt)
  ELSE IF steps[i].cond THEN [st EXCEPT !.error = Some(steps[i].msg)]
  ELSE RunSteps(steps, i + 1, st, throwAt)

\* a check that lets a text of 99 characters pass
tooShortBelow99(len) == len < MinTextLength - 1
\* dmpData.text.length < 100
tooShort(len) == len < MinTextLength

\* the two objects that evaluate resolves to
Failure(m, cf, df, ph) ==
  [ success |-> FALSE, error |-> Some(m), results |-> None,
    metadata |-> [criteriaFile |-> cf.name, dmpFile |-> df.name, phase |-> ph,
                  evaluationDate |-> "now", model |-> None] ]
Success(res, cf, df, ph) ==
  [ success |-> TRUE, error |-> None, results |-> Some(res),
    metadata |-> [criteriaFile |-> cf.name, dmpFile |-> df.name, phase |-> ph,
                  evaluationDate |-> "now", model |-> Some("selected model")] ]

TooShortMessage == "DMP document is too short. Please provide a complete DMP."
NoKeyMessage == "Together AI API key not configured. Please enter your API key."
NoContentMessage == "No content in API response"
ParseFailedMessage == "Failed to parse evaluation results as JSON"

FileForms ==
  {<<x, FALSE>> : x \in FileTypes} \cup {<<"docx", TRUE>>, <<"doc", TRUE>>}

evInputs == <<evTestMode, evApiKey, evCriteriaFile, evDmpFile, evPhase, evThrowAt>>

InitEV ==
  /\ evTestMode \in BOOLEAN
  /\ evApiKey \in BOOLEAN
  /\ \/ /\ evCriteriaFile \in
             {File("criteria", f[1], f[2], 500, TwoRowTable) : f \in FileForms}
        /\ evDmpFile \in
             {File("dmp", f[1], f[2], l, <<>>) : f \in FileForms, l \in TextLengths}
        /\ evPhase = "proposal"
        /\ evThrowAt = 0
     \/ /\ evCriteriaFile \in
             {File("criteria", x, FALSE, 500, d) :
                x \in {"txt", "exe"}, d \in {TwoRowTable, NoTable}}
        /\ evDmpFile = File("dmp", "txt", FALSE, 500, <<>>)
        /\ evPhase \in {"proposal", "end"}
        /\ evThrowAt \in 1..MaxThrowAt
  /\ evRubric = None
  /\ evDmpLen = None
  /\ evProgress = <<>>
  /\ evModelEvents = <<>>
  /\ evRequests = 0
  /\ evRaw = None
  /\ evRaised = <<>>
  /\ evOutcome = None
  /\ evPc = "start"
  /\ IdleButEv

Now == [progress |-> evProgress, events |-> evModelEvents, error |-> None]

\* catch (error): return {success: false, error: error.message, metadata}
Catch(m) ==
  /\ evRaised' = Append(evRaised, m)
  /\ evOutcome' = Some(Failure(m, evCriteriaFile, evDmpFile, evPhase))
  /\ evPc' = "resolved"

\* after the steps r: the catch block, or on to the next await
Continue(r, next) ==
  /\ evProgress' = r.progress
  /\ evModelEvents' = r.events
  /\ IF r.error # None THEN Catch(r.error[1])
     ELSE evPc' = next /\ UNCHANGED <<evRaised, evOutcome>>

\* from the return of evaluateDMP (after its last steps) to the return of
\* evaluate
Complete(raw, lastSteps) ==
  LET r1 == RunSteps(lastSteps, 1, Now, evThrowAt)
      r2 == RunSteps(<<Notify("Processing results...")>>, 1, r1, evThrowAt)
      r3 == RunSteps(<<Notify("Evaluation complete!")>>, 1, r2, evThrowAt)
  IN  IF r1.error # None THEN Continue(r1, evPc) /\ UNCHANGED evRaw
      ELSE /\ evRaw' = Some(raw)
           /\ IF r2.error # None THEN Continue(r2, evPc)
              ELSE IF r3.error # None THEN Continue(r3, evPc)
              ELSE /\ evProgress' = r3.progress
                   /\ evModelEvents' = r3.events
                   /\ \E out \in processResultsOutcomes(raw, evRubric[1].categories) :
                        evOutcome' = Some(Success(out, evCriteriaFile, evDmpFile, evPhase))
                   /\ evPc' = "resolved"
                   /\ UNCHANGED evRaised

\* the end of evaluateDMP in live mode
lastStepsOf(content) ==
  << Emit("status"),
     ThrowIf(content = "", NoContentMessage),
     ThrowIf(content = "no JSON", ParseFailedMessage),
     Emit("complete") >>

\* evaluate up to await parseFile(criteriaFile)
EvStart ==
  /\ evPc = "start"
  /\ Continue(RunSteps(<<Notify(IF evCriteriaFile.ext = "doc"
                                THEN "Extracting .doc file with AI..."
                                ELSE "Parsing evaluation criteria...")>>,
                       1, Now, evThrowAt),
              "criteria")
  /\ UNCHANGED <<evInputs, evRubric, evDmpLen, evRequests, evRaw, exceptEv>>

\* parseFile(criteriaFile) settles; evaluate up to await parseFile(dmpFile)
EvCriteriaDecoded ==
  /\ evPc = "criteria"
  /\ \E d \in parseFile(evCriteriaFile, evTestMode, evApiKey) :
       /\ evRequests' = evRequests + d.requests
       /\ IF d.error # None
          THEN Catch(d.error[1]) /\ UNCHANGED <<evProgress, evModelEvents, evRubric>>
          ELSE LET crit == extractCriteria(evCriteriaFile.doc, evPhase)
               IN  /\ evRubric' = Some(crit)
                   /\ Continue(
                        RunSteps(
                          << ThrowIf(~validateCriteria(crit), "Invalid criteria"),
                             Notify("Criteria loaded"),
                             Notify(IF evDmpFile.ext = "doc"
                                    THEN "Extracting .doc file with AI..."
                                    ELSE "Parsing DMP document...") >>,
                          1, Now, evThrowAt),
                        "dmp")
  /\ UNCHANGED <<evInputs, evDmpLen, evRaw, exceptEv>>

\* parseFile(dmpFile) settles; evaluate up to the first await of evaluateDMP
EvDmpDecoded ==
  /\ evPc = "dmp"
  /\ \E d \in parseFile(evDmpFile, evTestMode, evApiKey) :
       /\ evRequests' = evRequests + d.requests
       /\ IF d.error # None
          THEN Catch(d.error[1])
               /\ UNCHANGED <<evProgress, evModelEvents, evDmpLen>>
          ELSE /\ evDmpLen' = d.text
               /\ Continue(
                 RunSteps(
                   << Notify("DMP document parsed"),
                      ThrowIf(tooShort(d.text[1]), TooShortMessage),
                      Notify("Building evaluation prompt..."),
                      Notify("Evaluating DMP with AI...") >>
                   \o (IF evTestMode THEN <<Emit("status")>>
                       ELSE <<ThrowIf(~evApiKey, NoKeyMessage), Emit("status")>>),
                   1, Now, evThrowAt),
                 IF evTestMode THEN "testDelay" ELSE "fetching")
  /\ UNCHANGED <<evInputs, evRubric, evRaw, exceptEv>>

\* test mode: the simulated delay ends, evaluateDMP returns the sample data
EvTestReturn ==
  /\ evPc = "testDelay"
  /\ Complete(TEST_EVALUATION_DATA, <<>>)
  /\ UNCHANGED <<evInputs, evRubric, evDmpLen, evRequests, exceptEv>>

\* retryWithBackoff settles after n calls of fetch
EvFetched ==
  /\ evPc = "fetching"
  /\ \E n \in 1..(maxRetries + 1),
        kind \in {"network error", "not ok", "stream", "json"},
        content \in LiveContents :
       /\ kind = "network error" => n = maxRetries + 1
       /\ kind # "json" => content = ""
       /\ evRequests' = evRequests + n
       /\ CASE kind = "network error" ->
                 /\ Catch("All retry attempts failed")
                 /\ UNCHANGED <<evProgress, evModelEvents, evRaw>>
            [] kind = "not ok" ->
                 /\ Catch("API Error")
                 /\ UNCHANGED <<evProgress, evModelEvents, evRaw>>
            [] kind = "stream" ->
                 /\ evPc' = "streaming"
                 /\ UNCHANGED <<evProgress, evModelEvents, evRaw, evRaised, evOutcome>>
            [] OTHER -> Complete(LiveResult, lastStepsOf(content))
  /\ UNCHANGED <<evInputs, evRubric, evDmpLen, exceptEv>>

\* parseSSEStream forwards a chunk; what onProgress throws is caught there
EvStreamChunk ==
  /\ evPc = "streaming"
  /\ Cardinality({k \in 1..Len(evModelEvents) : evModelEvents[k] = "stream"}) < MaxChunks
  /\ evProgress' = Append(evProgress, ModelEventMessage)
  /\ evModelEvents' = Append(evModelEvents, "stream")
  /\ evRaised' = IF Len(evProgress) + 1 = evThrowAt
                 THEN Append(evRaised, CallbackError) ELSE evRaised
  /\ UNCHANGED <<evInputs, evRubric, evDmpLen, evRequests, evRaw, evOutcome, evPc,
                 exceptEv>>

\* parseSSEStream returns the content
EvStreamEnd ==
  /\ evPc = "streaming"
  /\ \E content \in LiveContents : Complete(LiveResult, lastStepsOf(content))
  /\ UNCHANGED <<evInputs, evRubric, evDmpLen, evRequests, exceptEv>>

NextEV ==
  \/ EvStart
  \/ EvCriteriaDecoded
  \/ EvDmpDecoded
  \/ EvTestReturn
  \/ EvFetched
  \/ EvStreamChunk
  \/ EvStreamEnd

SpecEV == InitEV /\ [][NextEV]_vars

---------------------------------------------------------------------------
(* Properties of evaluate *)

EvResolved == evPc = "resolved"
EvOutcome == evOutcome[1]

\* C14: whatever throws during a run (a stage or the progress callback), the
\* run ends there and the promise resolves to {success: false, error,
\* metadata} with the thrown message, the two file names, the phase and a
\* timestamp; no exception is left unanswered.
C14_ThrowResolvesToFailure ==
  evRaised # <<>> =>
    /\ EvResolved
    /\ evOutcome = Some(Failure(evRaised[1], evCriteriaFile, evDmpFile, evPhase))

CallbackThrew == \E k \in 1..Len(evRaised) : evRaised[k] = CallbackError
DmpIsShort == evDmpLen # None /\ evDmpLen[1] < 100
TooShortFailure ==
  /\ EvResolved
  /\ evOutcome = Some(Failure(TooShortMessage, evCriteriaFile, evDmpFile, evPhase))

\* C15 as stated: when the decoded DMP text is shorter than 100 characters
\* the run ends in the failure 'too short' and no network request has been
\* made in it, whatever the types of the two files and in either mode.
C15_TooShortBeforeAnyRequest ==
  (DmpIsShort /\ ~CallbackThrew) => (TooShortFailure /\ evRequests = 0)

\* a file whose decoding asks the model to clean the extracted text up: a
\* .doc or .docx that is no ZIP archive, with at least 100 characters of raw
\* text, in live mode with an API key stored
CleanedByModel(f) ==
  /\ f.ext \in {"doc", "docx"} /\ ~f.zip /\ f.len >= 100
  /\ ~evTestMode /\ evApiKey

\* C15, amended: when the decoded DMP text is shorter than 100 characters the
\* run ends in the failure 'too short' without calling the model client; the
\* only requests made are the clean-up requests of the legacy .doc decoder,
\* one for each document that is a legacy .doc decoded in live mode with an
\* API key stored, so none in test mode, none without a key and none when
\* neither document is a legacy .doc.
C15_TooShortRequestsOnlyForLegacyDoc ==
  (DmpIsShort /\ ~CallbackThrew) =>
    /\ TooShortFailure
    /\ evModelEvents = <<>> /\ evRaw = None
    /\ evRequests = (IF CleanedByModel(evCriteriaFile) THEN 1 ELSE 0)
                    + (IF CleanedByModel(evDmpFile) THEN 1 ELSE 0)

C15_Witness ==
  /\ evDmpFile.ext = "doc" /\ ~evDmpFile.zip /\ evDmpFile.len = 500
  /\ evCriteriaFile.ext = "pdf"
  /\ ~evTestMode /\ evApiKey
  /\ evDmpLen = Some(50)
  /\ TooShortFailure
  /\ evRequests = 1

\* C16: in test mode, with a criteria document whose table gives the rubric
\* 1a, 1b and a DMP text of 500 characters, the run succeeds with 2
\* categories and an overall score in 0..100.
C16_TestModeTwoCategories ==
  ( /\ evTestMode
    /\ evCriteriaFile.doc = TwoRowTable
    /\ evDmpLen = Some(500)
    /\ EvResolved /\ evRaised = <<>> ) =>
      /\ EvOutcome.success
      /\ Len(EvOutcome.results[1].categories) = 2
      /\ EvOutcome.results[1].overallScore \in 0..100

SampleIds ==
  << <<"1", "a">>, <<"1", "b">>, <<"2", "a">>, <<"2", "b">>, <<"3", "a">>,
     <<"3", "b">>, <<"4", "a">>, <<"4", "b">>, <<"5", "a">>, <<"5", "b">>,
     <<"6", "a">>, <<"6", "b">> >>

\* C17: in test mode no request is made at any stage, whatever the files
\* (legacy .doc included) and with or without an API key; nothing fails for
\* want of a key or of the network; evaluateDMP emits one event, of type
\* status, and returns the sample result with its 12 ids; a run in which
\* nothing throws succeeds.
C17_TestModeNoNetwork ==
  evTestMode =>
    /\ evRequests = 0
    /\ Len(evModelEvents) <= 1
    /\ \A k \in 1..Len(evRaised) :
         evRaised[k] \notin {NoKeyMessage, "All retry attempts failed", "API Error",
                             NoContentMessage, ParseFailedMessage}
    /\ evRaw # None =>
         /\ evModelEvents = <<"status">>
         /\ evRaw[1].categories # None
         /\ [k \in 1..Len(evRaw[1].categories[1]) |-> evRaw[1].categories[1][k].id]
              = [k \in 1..12 |-> Some(SampleIds[k])]
    /\ (EvResolved /\ evRaised = <<>>) => EvOutcome.success

C17_Witness ==
  /\ evTestMode /\ ~evApiKey
  /\ evDmpFile.ext = "doc" /\ ~evDmpFile.zip
  /\ evCriteriaFile.ext = "doc" /\ ~evCriteriaFile.zip
  /\ EvResolved /\ EvOutcome.success
  /\ evRequests = 0
  /\ evModelEvents = <<"status">>
  /\ evRaw = Some(TEST_EVALUATION_DATA)

\* the messages handed to onProgress that are events, not strings
EventsDelivered == SelectSeq(evProgress, LAMBDA m : m \notin STRING)

\* C27: every tagged event the model client emits during a run is handed to
\* the onProgress callback of evaluate as a structured event, with its
\* type, content and isReasoning tag, in the order emitted.
C27_EventsDeliveredStructured ==
  /\ Len(EventsDelivered) = Len(evModelEvents)
  /\ \A k \in 1..Len(EventsDelivered) : EventsDelivered[k].type = evModelEvents[k]

---------------------------------------------------------------------------
(* validateFile (FILE PARSER).  A file name is the sequence of its parts   *)
(* between the dots.                                                       *)

\* const maxSize = 50 * 1024 * 1024
maxSize == 50 * 1024 * 1024

allowedExtensions ==
  <<"txt", "json", "docx", "doc", "pdf", "html", "htm", "md", "markdown">>

\* toLowerCase, on the words that the names are made of
toLowerCase(w) ==
  CASE w = "DOC" -> "doc"
    [] w = "PDF" -> "pdf"
    [] w = "Txt" -> "txt"
    [] OTHER -> w

\* fileName.split('.').pop()
extensionOf(name) == toLowerCase(name[Len(name)])

includes(list, x) == \E k \in 1..Len(list) : list[k] = x

validateFile(file) ==
  IF extensionOf(file.name) = "doc" THEN [valid |-> TRUE, warning |-> TRUE]
  ELSE IF ~includes(allowedExtensions, extensionOf(file.name))
  THEN [valid |-> FALSE, warning |-> FALSE]
  ELSE IF file.size > maxSize THEN [valid |-> FALSE, warning |-> FALSE]
  ELSE [valid |-> TRUE, warning |-> FALSE]

FileNames ==
  {<<"plan", x>> : x \in {"txt", "json", "docx", "doc", "pdf", "html", "htm",
                          "md", "markdown", "DOC", "PDF", "Txt", "exe", "docm"}}
    \cup {<<"plan", "v2", "pdf">>, <<"plan", "doc", "exe">>, <<"plan">>}
FileSizes == {0, 1024, maxSize - 1, maxSize, maxSize + 1, 2 * maxSize}

InitVF ==
  /\ vfFile \in [name : FileNames, size : FileSizes]
  /\ vfResult = None
  /\ vfPc = "idle"
  /\ IdleButVf

\* const validation = window.FileParser.validateFile(file)
ValidateFile ==
  /\ vfPc = "idle"
  /\ vfResult' = Some(validateFile(vfFile))
  /\ vfPc' = "returned"
  /\ UNCHANGED <<vfFile, exceptVf>>

NextVF == ValidateFile

SpecVF == InitVF /\ [][NextVF]_vars

---------------------------------------------------------------------------
(* Properties of validateFile *)

\* the extension of a name: what follows its last dot, in lower case
HasAllowedExtension ==
  /\ Len(vfFile.name) >= 2
  /\ includes(allowedExtensions, toLowerCase(vfFile.name[Len(vfFile.name)]))

\* C20: valid: true is reported only for a file with one of the nine
\* extensions and a size of at most 50MB; a file of more than 50MB is
\* rejected whatever its extension.
C20_ValidOnlyAllowedAndSmall ==
  vfPc = "returned" =>
    /\ vfResult[1].valid => (HasAllowedExtension /\ vfFile.size <= 50 * 1024 * 1024)
    /\ vfFile.size > 50 * 1024 * 1024 => ~vfResult[1].valid

---------------------------------------------------------------------------
(* Profile management (api-config.js).  localStorage holds two items; the  *)
(* custom profiles are an object from profile ids to configurations.       *)

DEFAULT_PROFILES ==
  [together |-> [name |-> "Together.ai (Default)",
                 endpoint |-> "https://api.together.xyz/v1/chat/completions"],
   openai   |-> [name |-> "OpenAI Compatible",
                 endpoint |-> "https://api.openai.com/v1/chat/completions"]]

\* the guard of saveProfile and deleteProfile left out
NoGuard(profileId) == FALSE

\* DEFAULT_PROFILES[profileId] is truthy: an own key, or a property every
\* object inherits
InDefaultProfiles(profileId) == profileId \in {"together", "openai", "toString"}

getActiveProfileId == IF lsActiveProfile = None THEN "together" ELSE lsActiveProfile[1]

EmptyObject == [k \in {} |-> DEFAULT_PROFILES.together]

getCustomProfiles == IF lsCustomProfiles = None THEN EmptyObject ELSE lsCustomProfiles[1]

\* { ...DEFAULT_PROFILES[profileId] }, the custom profile, or null;
\* the copy of an inherited function has no properties
getProfile(profileId) ==
  IF profileId \in DOMAIN DEFAULT_PROFILES THEN Some(DEFAULT_PROFILES[profileId])
  ELSE IF InDefaultProfiles(profileId) THEN Some([name |-> "", endpoint |-> ""])
  ELSE IF profileId \in DOMAIN getCustomProfiles THEN Some(getCustomProfiles[profileId])
  ELSE None

\* getProfile(getActiveProfileId()) || { ...DEFAULT_PROFILES.together }
getActiveProfile ==
  LET profile == getProfile(getActiveProfileId)
  IN  IF profile # None THEN profile[1] ELSE DEFAULT_PROFILES.together

\* customProfiles[profileId] = config
SetKey(obj, key, val) ==
  [k \in (DOMAIN obj) \cup {key} |-> IF k = key THEN val ELSE obj[k]]

\* delete customProfiles[profileId]
DeleteKey(obj, key) == [k \in (DOMAIN obj) \ {key} |-> obj[k]]

ProfileIds == {"together", "openai", "toString", "custom_1", "custom_2"}
ProfileConfigs ==
  {[name |-> "Mine", endpoint |-> "https://llm.example.org/v1/chat/completions"],
   [name |-> "Together.ai (Default)", endpoint |-> "https://other.example.org/v1"]}

InitPS ==
  /\ lsActiveProfile = None
  /\ lsCustomProfiles = None
  /\ psCall = [op |-> "none", id |-> "", ret |-> None]
  /\ IdleButPs

SetActiveProfileId(profileId) ==
  /\ lsActiveProfile' = Some(profileId)
  /\ psCall' = [op |-> "setActiveProfileId", id |-> profileId, ret |-> None]
  /\ UNCHANGED <<lsCustomProfiles, exceptPs>>

SaveProfile(profileId, config) ==
  /\ IF InDefaultProfiles(profileId)
     THEN /\ psCall' = [op |-> "saveProfile", id |-> profileId, ret |-> Some(FALSE)]
          /\ UNCHANGED lsCustomProfiles
     ELSE /\ lsCustomProfiles' = Some(SetKey(getCustomProfiles, profileId, config))
          /\ psCall' = [op |-> "saveProfile", id |-> profileId, ret |-> Some(TRUE)]
  /\ UNCHANGED <<lsActiveProfile, exceptPs>>

DeleteProfile(profileId) ==
  /\ IF InDefaultProfiles(profileId)
     THEN /\ psCall' = [op |-> "deleteProfile", id |-> profileId, ret |-> Some(FALSE)]
          /\ UNCHANGED <<lsCustomProfiles, lsActiveProfile>>
     ELSE IF profileId \in DOMAIN getCustomProfiles
     THEN /\ lsCustomProfiles' = Some(DeleteKey(getCustomProfiles, profileId))
          /\ lsActiveProfile' = IF getActiveProfileId = profileId
                                THEN Some("together") ELSE lsActiveProfile
          /\ psCall' = [op |-> "deleteProfile", id |-> profileId, ret |-> Some(TRUE)]
     ELSE /\ psCall' = [op |-> "deleteProfile", id |-> profileId, ret |-> Some(FALSE)]
          /\ UNCHANGED <<lsCustomProfiles, lsActiveProfile>>
  /\ UNCHANGED exceptPs

GetProfile(profileId) ==
  /\ psCall' = [op |-> "getProfile", id |-> profileId, ret |-> getProfile(profileId)]
  /\ UNCHANGED <<lsActiveProfile, lsCustomProfiles, exceptPs>>

GetActiveProfile ==
  /\ psCall' = [op |-> "getActiveProfile", id |-> getActiveProfileId,
                ret |-> Some(getActiveProfile)]
  /\ UNCHANGED <<lsActiveProfile, lsCustomProfiles, exceptPs>>

NextPS ==
  \/ GetActiveProfile
  \/ \E profileId \in ProfileIds : SetActiveProfileId(profileId)
  \/ \E profileId \in ProfileIds, config \in ProfileConfigs : SaveProfile(profileId, config)
  \/ \E profileId \in ProfileIds : DeleteProfile(profileId)
  \/ \E profileId \in ProfileIds : GetProfile(profileId)

SpecPS == InitPS /\ [][NextPS]_vars

---------------------------------------------------------------------------
(* Properties of the profile store *)

BuiltIn == {"together", "openai"}

\* C18: saveProfile and deleteProfile called with a built-in id return false
\* and leave the stored custom profiles and the active profile id as they
\* were, and getProfile of a built-in id returns the original values,
\* after any sequence of calls.
C18_BuiltInsUnchanged ==
  [][ psCall'.id \in BuiltIn =>
        /\ psCall'.op \in {"saveProfile", "deleteProfile"} =>
             /\ psCall'.ret = Some(FALSE)
             /\ lsCustomProfiles' = lsCustomProfiles
             /\ lsActiveProfile' = lsActiveProfile
        /\ psCall'.op = "getProfile" =>
             psCall'.ret = Some(IF psCall'.id = "together"
                                THEN [name |-> "Together.ai (Default)",
                                      endpoint |-> "https://api.together.xyz/v1/chat/completions"]
                                ELSE [name |-> "OpenAI Compatible",
                                      endpoint |-> "https://api.openai.com/v1/chat/completions"]) ]_vars

\* a custom profile is stored and active when a built-in id is refused
C18_Witness ==
  /\ psCall.op \in {"saveProfile", "deleteProfile"}
  /\ psCall.id \in BuiltIn
  /\ lsCustomProfiles # None
  /\ DOMAIN lsCustomProfiles[1] = {"custom_1", "custom_2"}
  /\ lsActiveProfile = Some("custom_1")

\* a profile with the fields a request is built from
IsComplete(profile) == profile.name # "" /\ profile.endpoint # ""

\* the id names a built-in profile or a stored custom profile
NamesProfile(profileId) ==
  \/ profileId \in BuiltIn
  \/ lsCustomProfiles # None /\ profileId \in DOMAIN lsCustomProfiles[1]

\* C30: after any sequence of calls getActiveProfile returns a complete
\* profile, the together built-in when the active id names no existing
\* profile; and deleteProfile never leaves the active id naming the profile
\* it deleted: deleting the active custom profile makes together active,
\* deleting another one leaves the active id as it was.
C30_ActiveProfileCompleteAndNeverDeleted ==
  /\ [](psCall.op = "getActiveProfile" =>
          /\ psCall.ret # None
          /\ IsComplete(psCall.ret[1])
          /\ ~NamesProfile(psCall.id) =>
               psCall.ret[1] = [name |-> "Together.ai (Default)",
                                endpoint |-> "https://api.together.xyz/v1/chat/completions"])
  /\ [][(psCall'.op = "deleteProfile" /\ psCall'.ret = Some(TRUE)) =>
          /\ lsActiveProfile' # Some(psCall'.id)
          /\ lsActiveProfile = Some(psCall'.id) => lsActiveProfile' = Some("together")
          /\ lsActiveProfile # Some(psCall'.id) => lsActiveProfile' = lsActiveProfile]_vars

---------------------------------------------------------------------------
(* startEvaluation (MAIN APPLICATION): the click handler of the Start      *)
(* Evaluation button.  A run of Evaluator.evaluate is the number of        *)
(* progress messages it has sent; the handler continues, in the same       *)
(* turn of the event loop, when the run settles.                           *)

MaxClicks == 4
MaxSteps == 3

Settlements == {"success", "failure", "threw"}

\* the guard with the flag ignored
neverEvaluating == FALSE

\* if (state.isEvaluating) return
alreadyEvaluating == isEvaluating

RemoveAt(s, i) == SubSeq(s, 1, i - 1) \o SubSeq(s, i + 1, Len(s))

InitSE ==
  /\ isEvaluating = FALSE
  /\ evaluationResults = FALSE
  /\ seRuns = <<>>
  /\ seStatus = "idle"
  /\ seClicks = 0
  /\ seStarted = 0
  /\ seSettled = "none"
  /\ IdleButSe

\* startEvaluation, up to await window.Evaluator.evaluate(...)
Click ==
  /\ seClicks < MaxClicks
  /\ seClicks' = seClicks + 1
  /\ IF alreadyEvaluating
     THEN UNCHANGED <<isEvaluating, seRuns, seStatus, seStarted>>
     ELSE /\ isEvaluating' = TRUE
          /\ seStatus' = "processing"
          /\ seRuns' = Append(seRuns, 0)
          /\ seStarted' = seStarted + 1
  /\ UNCHANGED <<evaluationResults, seSettled, exceptSe>>

\* an asynchronous step of a run: (message) => updateStatusMessage(message)
Progress(i) ==
  /\ seRuns[i] < MaxSteps
  /\ seRuns' = [seRuns EXCEPT ![i] = @ + 1]
  /\ UNCHANGED <<isEvaluating, evaluationResults, seStatus, seClicks,
                 seStarted, seSettled, exceptSe>>

\* the run settles and startEvaluation continues: result.success, else,
\* catch, finally; displayThrows is an exception from displayResults
Settle(i, how, displayThrows) ==
  /\ seRuns' = RemoveAt(seRuns, i)
  /\ seSettled' = how
  /\ evaluationResults' = (evaluationResults \/ how = "success")
  /\ seStatus' = IF how = "success" /\ ~displayThrows THEN "complete" ELSE "error"
  /\ isEvaluating' = FALSE
  /\ UNCHANGED <<seClicks, seStarted, exceptSe>>

NextSE ==
  \/ Click
  \/ \E i \in 1..Len(seRuns) : Progress(i)
  \/ \E i \in 1..Len(seRuns), how \in Settlements, displayThrows \in BOOLEAN :
       Settle(i, how, displayThrows)

SpecSE == InitSE /\ [][NextSE]_vars

---------------------------------------------------------------------------
(* Properties of startEvaluation *)

\* C19: at most one Evaluator.evaluate call is in flight; a click while
\* isEvaluating is true starts nothing; and isEvaluating is false once the
\* running evaluation has settled, however it settled.
C19_OneEvaluationAtATime ==
  /\ [](Len(seRuns) <= 1 /\ (seRuns = <<>> => ~isEvaluating))
  /\ [][(seClicks' # seClicks /\ isEvaluating) =>
          (seRuns' = seRuns /\ seStarted' = seStarted)]_vars

\* a click was ignored during a run that threw, and the next click started
\* a second run
C19_Witness ==
  /\ seClicks = 3
  /\ seStarted = 2
  /\ seSettled = "threw"
  /\ Len(seRuns) = 1
  /\ isEvaluating

---------------------------------------------------------------------------
(* The settings and the Evaluate button (MAIN APPLICATION), with a run of  *)
(* evaluate as the stages that read the settings: evaluateDMP              *)
(* (js/api-config.js) and the metadata of the result (js/evaluator.js).    *)

DEFAULT_MODEL == "Qwen/Qwen3-235B-A22B-Instruct-2507-tput"
OtherModel == "deepseek-ai/DeepSeek-R1"

ApiKeys == {"", "key-1"}
Models == {DEFAULT_MODEL, OtherModel}

\* getAPIKey() as a condition: a stored, non-empty key
hasAPIKey == togetherAPIKey # None /\ togetherAPIKey[1] # ""
\* isTestMode()
isTestMode == llmTestMode = Some("true")
\* getSelectedModel()
getSelectedModel == OrStr(togetherAIModel, DEFAULT_MODEL)

Settings == [key |-> togetherAPIKey, testMode |-> isTestMode, model |-> getSelectedModel]

\* state.criteriaFile && state.dmpFile && (apiKey || testMode)
canEvaluate(c, d, key, test) ==
  c /\ d /\ ((key # None /\ key[1] # "") \/ test = Some("true"))

\* updateEvaluateButtonState(), given the files and the key as they are
\* when it is called
updateEvaluateButtonState(c, d, key) ==
  evaluateBtnDisabled' = ~canEvaluate(c, d, key, llmTestMode)

uiRunVars == <<uiRun, uiAtStart, uiRead, uiSent, uiMeta>>

\* initializeApp: loadSettings, updateEvaluateButtonState
InitUI ==
  /\ criteriaFile = FALSE
  /\ dmpFile = FALSE
  /\ togetherAPIKey \in {None} \cup {Some(k) : k \in ApiKeys}
  /\ llmTestMode \in {None, Some("true"), Some("false")}
  /\ togetherAIModel \in {None} \cup {Some(m) : m \in Models}
  /\ evaluateBtnDisabled = TRUE
  /\ uiRun = "idle"
  /\ uiAtStart = None /\ uiRead = None /\ uiSent = None /\ uiMeta = None
  /\ IdleButUi

\* a file is selected (dropped, chosen) or removed: onFileSelected(file)
CriteriaFileSelected(file) ==
  /\ criteriaFile' = file
  /\ updateEvaluateButtonState(file, dmpFile, togetherAPIKey)
  /\ UNCHANGED <<dmpFile, togetherAPIKey, llmTestMode, togetherAIModel, uiRunVars, exceptUi>>

DmpFileSelected(file) ==
  /\ dmpFile' = file
  /\ updateEvaluateButtonState(criteriaFile, file, togetherAPIKey)
  /\ UNCHANGED <<criteriaFile, togetherAPIKey, llmTestMode, togetherAIModel, uiRunVars, exceptUi>>

\* saveCriteriaTextBtn click, after detectAndConvertCriteria
CriteriaTextSaved ==
  /\ criteriaFile' = TRUE
  /\ updateEvaluateButtonState(TRUE, dmpFile, togetherAPIKey)
  /\ UNCHANGED <<dmpFile, togetherAPIKey, llmTestMode, togetherAIModel, uiRunVars, exceptUi>>

\* saveDmpTextBtn click
DmpTextSaved ==
  /\ dmpFile' = TRUE
  /\ updateEvaluateButtonState(criteriaFile, TRUE, togetherAPIKey)
  /\ UNCHANGED <<criteriaFile, togetherAPIKey, llmTestMode, togetherAIModel, uiRunVars, exceptUi>>

\* apiKeyInput input
ApiKeyInput(value) ==
  /\ togetherAPIKey' = Some(value)
  /\ updateEvaluateButtonState(criteriaFile, dmpFile, Some(value))
  /\ UNCHANGED <<criteriaFile, dmpFile, llmTestMode, togetherAIModel, uiRunVars, exceptUi>>

\* modelSelect change
ModelChanged(value) ==
  /\ togetherAIModel' = Some(value)
  /\ UNCHANGED <<criteriaFile, dmpFile, togetherAPIKey, llmTestMode,
                 evaluateBtnDisabled, uiRunVars, exceptUi>>

\* testModeToggle change
TestModeChanged(checked) ==
  /\ llmTestMode' = Some(IF checked THEN "true" ELSE "false")
  /\ UNCHANGED <<criteriaFile, dmpFile, togetherAPIKey, togetherAIModel,
                 evaluateBtnDisabled, uiRunVars, exceptUi>>

\* a click on the enabled button with no run in progress: startEvaluation
\* calls evaluate, which starts to decode the files
StartRun ==
  /\ ~evaluateBtnDisabled
  /\ uiRun \in {"idle", "settled"}
  /\ uiRun' = "decoding"
  /\ uiAtStart' = Some(Settings)
  /\ uiRead' = None /\ uiSent' = None /\ uiMeta' = None
  /\ UNCHANGED <<criteriaFile, dmpFile, togetherAPIKey, llmTestMode, togetherAIModel,
                 evaluateBtnDisabled, exceptUi>>

\* evaluateDMP: isTestMode(), getAPIKey(), getSelectedModel(), the request
CallModel ==
  /\ uiRun = "decoding"
  /\ uiRead' = Some(Settings)
  /\ IF isTestMode THEN uiRun' = "calling" /\ uiSent' = None
     ELSE IF ~hasAPIKey THEN uiRun' = "settled" /\ uiSent' = None
     ELSE uiRun' = "calling" /\ uiSent' = Some(getSelectedModel)
  /\ UNCHANGED <<criteriaFile, dmpFile, togetherAPIKey, llmTestMode, togetherAIModel,
                 evaluateBtnDisabled, uiAtStart, uiMeta, exceptUi>>

\* evaluate returns: metadata.model is getSelectedModel() of a successful
\* result
Return(success) ==
  /\ uiRun = "calling"
  /\ uiRun' = "settled"
  /\ uiMeta' = IF success THEN Some(getSelectedModel) ELSE None
  /\ UNCHANGED <<criteriaFile, dmpFile, togetherAPIKey, llmTestMode, togetherAIModel,
                 evaluateBtnDisabled, uiAtStart, uiRead, uiSent, exceptUi>>

NextUI ==
  \/ \E file \in BOOLEAN : CriteriaFileSelected(file)
  \/ \E file \in BOOLEAN : DmpFileSelected(file)
  \/ CriteriaTextSaved
  \/ DmpTextSaved
  \/ \E value \in ApiKeys : ApiKeyInput(value)
  \/ \E value \in Models : ModelChanged(value)
  \/ \E checked \in BOOLEAN : TestModeChanged(checked)
  \/ StartRun
  \/ CallModel
  \/ \E success \in BOOLEAN : Return(success)

SpecUI == InitUI /\ [][NextUI]_vars

---------------------------------------------------------------------------
(* Properties of the settings *)

\* C21: in every state reachable by UI events the Evaluate button is
\* enabled exactly when both files are selected and either an API key is
\* stored or test mode is on.
C21_ButtonEnabledIffReady ==
  ~evaluateBtnDisabled <=>
    /\ criteriaFile /\ dmpFile
    /\ \/ togetherAPIKey \in {Some(k) : k \in ApiKeys \ {""}}
       \/ llmTestMode = Some("true")

\* C24: the settings do not change during a run: evaluateDMP reads the
\* values that held when the run started, and metadata.model of a
\* successful result is the model the request was sent with.
C24_SettingsFixedDuringRun ==
  /\ uiRead # None => uiRead = uiAtStart
  /\ (uiMeta # None /\ uiSent # None) => uiMeta = uiSent

====
